---- MODULE Spec2Model ----
(***************************************************************************)
(* Mining-operation lifecycle of the NARA mining UI (src/src/App.jsx,      *)
(* src/src/services/contracts.js, src/unnamed/part_007, the mining service).*)
(*                                                                         *)
(* The React component App holds the dashboard snapshot, the optimistic    *)
(* pending-mines counter and the handlers handleFinalize / handleMine.     *)
(* Every handler is an async function: it runs synchronously up to its     *)
(* next await, and other callbacks of the single-threaded event loop run   *)
(* between two awaits.  One action of this module is one such synchronous  *)
(* turn.  Values returned by the remote ledger are arbitrary values of     *)
(* bounded sets: a read may lag behind any write.                          *)
(***************************************************************************)
EXTENDS Integers, Sequences, FiniteSets, TLC

\* ------------------------------------------------------------------ bounds
MaxCap == 2          \* largest effectiveCap / hardCap a dashboard read returns
MaxUsed == 2         \* largest pendingTickets (used tickets) a read returns
MaxCount == 3        \* largest userRequestCount / userClaimedCount a read returns
NumFinalize == 2     \* activations of handleFinalize that may overlap
MaxTickets == 2      \* largest ordinary ticket count typed into the input
MaxPending == 3      \* handleMine is not started once the counter shows this
MaxEpochs == 4       \* most candidate epochs a claimable read returns
MaxAmount == 2       \* largest claimable amount of one epoch, in wei
MaxPool == 3         \* largest rewardTokenPool / token balance, in wei
MaxClaimable == 2    \* latest epoch a claimable read of loadData returns
MaxClaims == 2       \* handleClaim is not started once the history holds this
NumClaim == 2        \* activations of handleClaim that may overlap
NumMine == 2         \* activations of handleMine that may overlap
MaxFragments == 2    \* fragments of a raw error message
MaxPriceRise == 1    \* units by which miner.unitWei() may exceed UNIT_WEI
MaxRemaining == 3    \* largest epochSecondsRemaining a dashboard read returns

\* ------------------------------------------------------- program constants
\* amounts of ether are counted in units of 10^13 wei
MAX_ETH == 100000        \* MINING_LIMITS.MAX_ETH  = 1 ETH
MAX_WEI == 100000        \* MINING_LIMITS.MAX_WEI  = parseEther('1')
MAX_TICKETS == 50000     \* MINING_LIMITS.MAX_TICKETS
UNIT_WEI == 2            \* 0.00002 ETH, the ticket price of the deployed miner
HISTORY_CAP == 10        \* handleClaim: .slice(0, 10)
RPC_ENDPOINTS_LENGTH == 3    \* contracts.js: RPC_ENDPOINTS, CONFIG.rpcUrl set
CLAIM_BASE_GAS == 250000         \* TX_SETTINGS.CLAIM_BASE_GAS
CLAIM_GAS_PER_EPOCH == 80000     \* TX_SETTINGS.CLAIM_GAS_PER_EPOCH
SINGLE_CLAIM_GAS == 500000       \* TX_SETTINGS.SINGLE_CLAIM_GAS
FINALIZE_BASE_GAS == 200000      \* TX_SETTINGS.FINALIZE_BASE_GAS
FINALIZE_GAS_PER_MINE == 150000  \* TX_SETTINGS.FINALIZE_GAS_PER_MINE
EPOCH_SECONDS == 180         \* env.js: EPOCH_SECONDS

Max(a, b) == IF a >= b THEN a ELSE b
Min(a, b) == IF a <= b THEN a ELSE b

VARIABLES
    connected,      \* isConnected && address
    dashboard,      \* useState dashboard (DashboardSnapshot or null)
    pendingMines,   \* useState pendingMines, the optimistic counter shown
    ticketPrice,    \* useState ticketPrice, 0 stands for null
    isLoading,      \* useState isLoading
    isFinalizing,   \* useState isFinalizing
    finalizingRef,  \* useRef finalizingRef.current
    miningPhase,    \* useState miningPhase
    fin,            \* activations of handleFinalize: position and closure
    mn,             \* activations of handleMine: position and closure
    claimableData,  \* useState claimableData (ClaimableSet or null)
    claimHistory,   \* useState claimHistory, as saved in localStorage
    claimMemo,      \* the claimHistory held by the memoized handleClaim
    cl,             \* the activation of handleClaim: position and closure
    last,           \* what the last turn of the event loop did
    rm,             \* the remote ledger once it is settled and reads are current
    scope,          \* the polled values a specification lets vary
    mg,             \* one reconciliation merge applied on its own
    cb,             \* one call of getClaimableEpochsBatch: its locals
    cp,             \* one evaluation of the capacity computations
    rc,             \* the read client: provider, providerIndex, one call
    tm,             \* the countdown: timeRemaining and its last change
    st,             \* localStorage, CONFIG.minerAddress and the mounted App
    wa,             \* useAccount: the address of the wallet's account
    sn,             \* one error on its way from the throw to the display
    mw              \* one call of mine(): its arguments, reads and write

vars == <<connected, dashboard, pendingMines, ticketPrice, isLoading,
          isFinalizing, finalizingRef, miningPhase, fin, mn,
          claimableData, claimHistory, claimMemo, cl, last, rm, scope,
          st, wa, mg, cb, cp, rc, tm, sn, mw>>

\* the variables of the specifications of single functions and units
pureVars == <<mg, cb, cp, rc, tm, sn, mw>>

\* the same without the one a specification is about
butMg == <<cb, cp, rc, tm, sn, mw>>
butCb == <<mg, cp, rc, tm, sn, mw>>
butCp == <<mg, cb, rc, tm, sn, mw>>
butRc == <<mg, cb, cp, tm, sn, mw>>
butTm == <<mg, cb, cp, rc, sn, mw>>
butSn == <<mg, cb, cp, rc, tm, mw>>
butMw == <<mg, cb, cp, rc, tm, sn>>

\* the variables of the component App
appVars == <<connected, dashboard, pendingMines, ticketPrice, isLoading,
             isFinalizing, finalizingRef, miningPhase, fin, mn,
             claimableData, claimHistory, claimMemo, cl, last, rm, scope,
             st, wa>>

\* the variables of App and its handlers
appVarsButEnv == <<connected, dashboard, pendingMines, ticketPrice, isLoading,
                   isFinalizing, finalizingRef, miningPhase, fin, mn,
                   claimableData, claimHistory, claimMemo, cl, last>>

\* the variables of handleClaim
claimVars == <<claimableData, claimHistory, claimMemo, cl>>

\* the variables of the environment of App
envVars == <<rm, scope, st, wa>>

\* ------------------------------------------------------------ data model
\* getUserDashboard returns null on error; `present` is FALSE for null.
\* A field that is undefined or 0 is falsy in the handlers, so both are 0.
NullDashboard ==
    [present |-> FALSE, effectiveCap |-> 0, hardCap |-> 0, pendingTickets |-> 0]

DashboardReads ==
    [present : {TRUE}, effectiveCap : 0..MaxCap, hardCap : {0, MaxCap},
     pendingTickets : 0..MaxUsed]

\* getPendingMines: Number(requested) - Number(claimed), 0 when the read fails
PendingReads == {r - c : r \in 0..MaxCount, c \in 0..MaxCount}

PriceReads == {UNIT_WEI}

TicketInputs == 0..MaxTickets \cup {MAX_TICKETS + 1}

FinIds == 1..NumFinalize
ClaimIds == 1..NumClaim
MineIds == 1..NumMine

\* pc: position of the activation; pre, cap, oldUsed, count: the constants
\* pendingMines, cap, used, countToFinalize of its closure; writes: calls of
\* minerWrite.finalizeMines it has made; overlapped: handleFinalize was
\* activated again while this activation was running
IdleFin == [pc |-> "idle", pre |-> 0, cap |-> 0, oldUsed |-> 0, count |-> 0,
            writes |-> 0, overlapped |-> FALSE]

\* pc: position; tickets, pre: the constants tickets and pendingInQueue of
\* the closure
IdleMine == [pc |-> "idle", tickets |-> 0, pre |-> 0, writes |-> 0]

\* outcome of a rejected promise after sanitizeError: the user declined
\* (TRANSACTION_REJECTED, not shown) or any other message (shown)
Failures == {"rejected", "failed"}
\* an error message: its text, the trigger fragments of sanitizeError the
\* text contains (case-sensitive), and whether it passes the last test
\* (shorter than 100 characters, without '0x' and without 'at ')
Msg(text, marks, plain) == [text |-> text, marks |-> marks, plain |-> plain]

\* ERROR_MESSAGES
TRANSACTION_REJECTED == Msg("Transaction was rejected", {}, TRUE)
INSUFFICIENT_BALANCE == Msg("Insufficient ETH balance", {}, TRUE)
NETWORK_ERROR == Msg("Network error. Please try again.", {}, TRUE)
NOT_ELIGIBLE == Msg("Hold 0.1 NARA for 3 hours to mine", {}, TRUE)
MINING_PAUSED == Msg("Mining is currently paused", {"paused"}, TRUE)
WALLET_NOT_CONNECTED == Msg("Please connect your wallet", {}, TRUE)
AMOUNT_TOO_HIGH == Msg("Maximum amount is 1 ETH", {}, TRUE)
INVALID_AMOUNT == Msg("Please enter a valid amount", {}, TRUE)
CONTRACT_NOT_READY == Msg("Contract not initialized", {}, TRUE)

\* mine: new Error('Wallet address mismatch')
ADDRESS_MISMATCH == Msg("Wallet address mismatch", {}, TRUE)

\* no error thrown
NoError == Msg("", {}, TRUE)

\* what the wallet / provider throws: the signer's rejection error
\* ("user rejected action (action=..., ... 0x...)") when the user declines,
\* a call exception carrying the transaction otherwise
RawError(kind) ==
    IF kind = "rejected"
    THEN Msg("user rejected action", {"user rejected"}, FALSE)
    ELSE Msg("transaction execution reverted", {}, FALSE)

\* faulty variant: the user-rejection test is skipped
SanitizeErrorNoReject(error) ==
    IF error.marks \cap {"insufficient", "INSUFFICIENT_FUNDS"} # {}
    THEN INSUFFICIENT_BALANCE
    ELSE IF error.marks \cap {"not eligible", "canMine"} # {} THEN NOT_ELIGIBLE
    ELSE IF "paused" \in error.marks THEN MINING_PAUSED
    ELSE IF error.marks \cap {"network", "RPC", "timeout"} # {}
         THEN NETWORK_ERROR
    ELSE IF error.plain THEN error
    ELSE NETWORK_ERROR

\* sanitizeError(error), for an error with a message
SanitizeError(error) ==
    IF error.marks \cap {"user rejected", "User denied"} # {}
    THEN TRANSACTION_REJECTED
    ELSE IF error.marks \cap {"insufficient", "INSUFFICIENT_FUNDS"} # {}
         THEN INSUFFICIENT_BALANCE
    ELSE IF error.marks \cap {"not eligible", "canMine"} # {} THEN NOT_ELIGIBLE
    ELSE IF "paused" \in error.marks THEN MINING_PAUSED
    ELSE IF error.marks \cap {"network", "RPC", "timeout"} # {}
         THEN NETWORK_ERROR
    ELSE IF error.plain THEN error
    ELSE NETWORK_ERROR

\* what reaches the handler's catch: mine / finalizeMines / claimBatch wrap
\* a failure of the write call as new Error(sanitizeError(error)); other
\* failures arrive as thrown
Thrown(kind, stage) ==
    IF stage = "signing" THEN SanitizeError(RawError(kind)) ELSE RawError(kind)

\* catch of the three handlers: msg = sanitizeError(err), shown by setError
\* unless it is TRANSACTION_REJECTED; "" stands for no error shown
ShownMsg(err) ==
    LET msg == SanitizeError(err)
    IN  IF msg # TRANSACTION_REJECTED THEN msg.text ELSE ""

\* the same for a failure of the given kind met at the given stage
ShownError(kind, stage) == ShownMsg(Thrown(kind, stage))

\* ------------------------------------------- the text of a raw error
\* A raw error message is a sequence of fragments, written here as the
\* wallet, the provider and the contract library write them.
Fragments ==
    {"execution reverted", "user rejected action",
     "User denied transaction signature", "insufficient funds",
     "Mining is paused", "request timeout",
     "data=\"0x08c379a0\"",
     "from=\"0x314357f3c15522A4A3C5248D8D68FfA210246659\"",
     "    at mine (mining.js:137:30)",
     "transaction={ to, value, gasLimit, maxFeePerGas, maxPriorityFeePerGas, nonce, chainId, accessList }"}

\* the fragments that show internals: a line of a stack trace, a hex
\* payload, a full address
StackFragments == {"    at mine (mining.js:137:30)"}
HexFragments == {"data=\"0x08c379a0\""}
AddressFragments == {"from=\"0x314357f3c15522A4A3C5248D8D68FfA210246659\""}
Internals == StackFragments \cup HexFragments \cup AddressFragments

\* String.prototype.includes on one fragment: the substrings sanitizeError
\* looks for that the fragment contains (case-sensitive)
Includes(fragment) ==
    CASE fragment = "user rejected action" -> {"user rejected"}
      [] fragment = "User denied transaction signature" -> {"User denied"}
      [] fragment = "insufficient funds" -> {"insufficient"}
      [] fragment = "Mining is paused" -> {"paused"}
      [] fragment = "request timeout" -> {"timeout"}
      [] fragment \in HexFragments \cup AddressFragments -> {"0x"}
      [] fragment \in StackFragments -> {"at "}
      [] OTHER -> {}

\* String.prototype.length of one fragment
FragmentLength(fragment) ==
    CASE fragment = "execution reverted" -> 18
      [] fragment = "user rejected action" -> 20
      [] fragment = "User denied transaction signature" -> 33
      [] fragment = "insufficient funds" -> 18
      [] fragment = "Mining is paused" -> 16
      [] fragment = "request timeout" -> 15
      [] fragment \in HexFragments -> 17
      [] fragment \in AddressFragments -> 49
      [] fragment \in StackFragments -> 30
      [] OTHER -> 99

\* message.length: the fragments are joined by one space
RECURSIVE TextLength(_)
TextLength(text) ==
    IF Len(text) = 0 THEN 0
    ELSE IF Len(text) = 1 THEN FragmentLength(text[1])
    ELSE FragmentLength(text[1]) + 1 + TextLength(Tail(text))

\* the substrings sanitizeError looks for that the text contains
TextIncludes(text) == UNION {Includes(text[i]) : i \in 1..Len(text)}

\* faulty variant: the test for '0x' is left out
SeemsSafeNoHexTest(text) ==
    /\ TextLength(text) < 100
    /\ "at " \notin TextIncludes(text)

\* sanitizeError's last test: message.length < 100 && !message.includes('0x')
\* && !message.includes('at ')
SeemsSafe(text) ==
    /\ TextLength(text) < 100
    /\ "0x" \notin TextIncludes(text)
    /\ "at " \notin TextIncludes(text)

\* an error thrown with the given text; length is its message.length
RawMessage(text) ==
    [text |-> text, marks |-> TextIncludes(text) \ {"0x", "at "},
     plain |-> SeemsSafe(text), length |-> TextLength(text)]

\* the raw errors: up to MaxFragments fragments, '' included
RawMessages ==
    {RawMessage(text) :
        text \in UNION {[1..n -> Fragments] : n \in 0..MaxFragments}}

\* ERROR_MESSAGES and the one message mine() throws itself
FixedMessages ==
    {TRANSACTION_REJECTED, INSUFFICIENT_BALANCE, NETWORK_ERROR, NOT_ELIGIBLE,
     MINING_PAUSED, WALLET_NOT_CONNECTED, AMOUNT_TOO_HIGH, INVALID_AMOUNT,
     CONTRACT_NOT_READY, ADDRESS_MISMATCH}

IdleSanitize == [pc |-> "idle"]

\* an awaited call rejects with a raw error; inside mine / claimBatch /
\* finalizeMines the write call's rejection is wrapped as
\* new Error(sanitizeError(error)) before it reaches the handler
SanitizeThrow ==
    /\ sn.pc = "idle"
    /\ \E raw \in RawMessages, wrapped \in BOOLEAN :
          sn' = [pc |-> "thrown", raw |-> raw, wrapped |-> wrapped,
                 err |-> IF wrapped THEN SanitizeError(raw) ELSE raw]
    /\ UNCHANGED <<appVars, butSn>>

\* the catch of the handler: msg = sanitizeError(err), shown by setError
\* unless it is TRANSACTION_REJECTED
SanitizeCatch ==
    /\ sn.pc = "thrown"
    /\ LET msg == SanitizeError(sn.err)
       IN  sn' = [pc |-> "caught", raw |-> sn.raw, wrapped |-> sn.wrapped,
                  msg |-> msg, shown |-> msg # TRANSACTION_REJECTED]
    /\ UNCHANGED <<appVars, butSn>>

\* the next operation begins: setError('')
SanitizeClear ==
    /\ sn.pc = "caught"
    /\ sn' = IdleSanitize
    /\ UNCHANGED <<appVars, butSn>>

\* what the reads and lookups inside mine() return: the signer, whether its
\* address is the expected one, token.canMine (false when the read fails),
\* getMiningStatus, and the miner contract bound to the signer
MineEnvs ==
    [signer : BOOLEAN, addressMatch : BOOLEAN, canMine : BOOLEAN,
     paused : BOOLEAN, seeded : BOOLEAN, minerWrite : BOOLEAN]

\* faulty variant: the eligibility check is left out
MinePreflightNoEligibility(ticketCount, env, unitWei) ==
    IF ticketCount <= 0 THEN INVALID_AMOUNT
    ELSE IF ticketCount > MAX_TICKETS THEN AMOUNT_TOO_HIGH
    ELSE IF ~env.signer THEN WALLET_NOT_CONNECTED
    ELSE IF ~env.addressMatch THEN ADDRESS_MISMATCH
    ELSE IF env.paused THEN MINING_PAUSED
    ELSE IF ~env.seeded THEN CONTRACT_NOT_READY
    ELSE IF ticketCount * unitWei > MAX_WEI THEN AMOUNT_TOO_HIGH
    ELSE IF ~env.minerWrite THEN WALLET_NOT_CONNECTED
    ELSE NoError

\* mine(ticketCount, expectedAddress): the error of the first check that
\* fails, in the order of the code, NoError when all pass
MinePreflight(ticketCount, env, unitWei) ==
    IF ticketCount <= 0 THEN INVALID_AMOUNT
    ELSE IF ticketCount > MAX_TICKETS THEN AMOUNT_TOO_HIGH
    ELSE IF ~env.signer THEN WALLET_NOT_CONNECTED
    ELSE IF ~env.addressMatch THEN ADDRESS_MISMATCH
    ELSE IF ~env.canMine THEN NOT_ELIGIBLE
    ELSE IF env.paused THEN MINING_PAUSED
    ELSE IF ~env.seeded THEN CONTRACT_NOT_READY
    ELSE IF ticketCount * unitWei > MAX_WEI THEN AMOUNT_TOO_HIGH
    ELSE IF ~env.minerWrite THEN WALLET_NOT_CONNECTED
    ELSE NoError

\* the ticket counts mine() may be called with and the prices
\* miner.unitWei() may return
MineCounts == 0..MaxTickets \cup {MAX_TICKETS - 1, MAX_TICKETS, MAX_TICKETS + 1}
UnitWeiReads == UNIT_WEI..(UNIT_WEI + MaxPriceRise)

\* faulty variant: the cost is computed from the price the page shows
CalculateCostShownPrice(ticketCount, unitWei) == ticketCount * UNIT_WEI

\* calculateCost: ticketCount * unitWei, on BigInt
CalculateCost(ticketCount, unitWei) == ticketCount * unitWei

IdleWrite == [pc |-> "idle"]

\* mine(ticketCount, expectedAddress) is called
MineCall ==
    /\ mw.pc = "idle"
    /\ \E ticketCount \in MineCounts :
          mw' = [pc |-> "called", ticketCount |-> ticketCount]
    /\ UNCHANGED <<appVars, butMw>>

\* its reads have resolved and its checks are made: it throws, or it calls
\* minerWrite.requestMine(ticketCount, { value: cost })
MineSubmit ==
    /\ mw.pc = "called"
    /\ \E env \in MineEnvs, unitWei \in UnitWeiReads :
          LET err == MinePreflight(mw.ticketCount, env, unitWei)
          IN  IF err # NoError
              THEN mw' = [pc |-> "thrown", ticketCount |-> mw.ticketCount,
                          env |-> env, unitWei |-> unitWei, err |-> err]
              ELSE mw' = [pc |-> "written", ticketCount |-> mw.ticketCount,
                          env |-> env, unitWei |-> unitWei,
                          requestMine |-> mw.ticketCount,
                          value |-> CalculateCost(mw.ticketCount, unitWei)]
    /\ UNCHANGED <<appVars, butMw>>

\* the call has returned or thrown
MineReturn ==
    /\ mw.pc \in {"thrown", "written"}
    /\ mw' = IdleWrite
    /\ UNCHANGED <<appVars, butMw>>

None == [op |-> "none"]

\* useState(null) of claimableData, and the null getClaimableEpochsBatch
\* returns when a read fails
NullClaimable ==
    [present |-> FALSE, epochs |-> <<>>, amounts |-> <<>>, totalClaimable |-> 0]

\* handleClaim: { epochs: [], amounts: [], totalClaimable: '0' }
EmptyClaimable ==
    [present |-> TRUE, epochs |-> <<>>, amounts |-> <<>>, totalClaimable |-> 0]

\* the epochs of a set in the ascending order of the remote read
RECURSIVE Ascending(_)
Ascending(S) ==
    IF S = {} THEN <<>>
    ELSE LET m == CHOOSE x \in S : \A y \in S : x <= y
         IN  <<m>> \o Ascending(S \ {m})

\* the results of getClaimableEpochsBatch: the selected epochs, one token
\* each, and their total
ClaimableReads ==
    {[present |-> TRUE, epochs |-> Ascending(S),
      amounts |-> [x \in 1..Cardinality(S) |-> 1],
      totalClaimable |-> Cardinality(S)] : S \in SUBSET (1..MaxClaimable)}

\* pc: position; epochs, amount: the constants epochsToClaim and
\* amountToClaim of the closure; history: the claimHistory the closure holds;
\* writes: calls of minerWrite.claim / claimBatch it has made; from: the
\* account that signs the write
IdleClaim == [pc |-> "idle", epochs |-> <<>>, amount |-> 0, history |-> <<>>,
              writes |-> 0, from |-> ""]

\* the addresses of the accounts of the wallet
Accounts == {"0x1", "0x2"}

\* the ledger is still changing and reads may lag
Unsettled == [settled |-> FALSE, pending |-> 0, dashboard |-> NullDashboard]

\* what the reads of a turn can return: anything while reads may lag, the
\* ledger's values once it is settled and reads are current; a value the
\* specification does not let vary is read as it is held
PendingNow ==
    IF rm.settled THEN {rm.pending}
    ELSE IF "pending" \in scope THEN PendingReads ELSE {pendingMines}

DashboardNow ==
    IF rm.settled THEN {rm.dashboard}
    ELSE IF "cap" \in scope THEN DashboardReads \cup {NullDashboard}
    ELSE {d \in DashboardReads : d.effectiveCap = MaxCap /\ d.hardCap = MaxCap}
         \cup {NullDashboard}

ClaimableNow ==
    IF "claimable" \in scope THEN ClaimableReads \cup {NullClaimable}
    ELSE {claimableData}

\* ------------------------------------------------- pure parts of handlers
\* handleFinalize: dashboard?.effectiveCap || dashboard?.hardCap || 1
FinalizeCap(d) ==
    IF d.effectiveCap # 0 THEN d.effectiveCap
    ELSE IF d.hardCap # 0 THEN d.hardCap ELSE 1

\* handleMine: dashboard?.effectiveCap || dashboard?.hardCap || 0
MineCap(d) ==
    IF d.effectiveCap # 0 THEN d.effectiveCap
    ELSE IF d.hardCap # 0 THEN d.hardCap ELSE 0

\* dashboard?.pendingTickets || 0
UsedTickets(d) == d.pendingTickets

\* handleMine: !!dashboard?.effectiveCap
IsPreciseCap(d) == d.effectiveCap # 0

\* faulty variant: the difference is not clamped at 0
AvailableNoClamp(cap, used) == cap - used

\* handleFinalize: Math.max(0, cap - used)
Available(cap, used) == Max(0, cap - used)

\* faulty variant: all the capacity left is finalized, whatever is pending
CountToFinalizeAvailable(pm, available) == available

\* faulty variant: every pending mine is finalized, whatever the cap leaves
CountToFinalizeNoCap(pm, available) == pm

\* handleFinalize: Math.min(pendingMines, available)
CountToFinalize(pm, available) == Min(pm, available)

\* faulty variant: the mines waiting in the queue are not subtracted
RemainingCapNoQueue(effectiveCap, currentTickets, pendingInQueue) ==
    effectiveCap - currentTickets

\* handleMine: effectiveCap - currentTickets - pendingInQueue
RemainingCap(effectiveCap, currentTickets, pendingInQueue) ==
    effectiveCap - currentTickets - pendingInQueue

\* faulty variant: the per-epoch gas is left out of a batch claim
ClaimGasLimitBaseOnly(length) ==
    IF length = 1 THEN SINGLE_CLAIM_GAS ELSE CLAIM_BASE_GAS

\* claimBatch: the gasLimit of minerWrite.claim (one epoch) and of
\* minerWrite.claimBatch
ClaimGasLimit(length) ==
    IF length = 1 THEN SINGLE_CLAIM_GAS
    ELSE CLAIM_BASE_GAS + length * CLAIM_GAS_PER_EPOCH

\* finalizeMines: the gasLimit of minerWrite.finalizeMines
FinalizeGasLimit(count) == FINALIZE_BASE_GAS + count * FINALIZE_GAS_PER_MINE

\* faulty variant: the decrement is applied to the displayed value once more
FinalizeMergePendingAgain(prev, pre, k, polled) ==
    IF polled >= pre THEN Max(0, prev - k) ELSE polled

\* faulty variant: the polled value is always adopted
FinalizeMergePendingPolled(prev, pre, k, polled) == polled

\* handleFinalize: Math.max(0, pendingMines - countToFinalize) kept when the
\* polled value has not decreased, the polled value otherwise
FinalizeMergePending(prev, pre, k, polled) ==
    IF polled >= pre THEN Max(0, pre - k) ELSE polled

\* faulty variant: the polled dashboard is always adopted as it is
FinalizeMergeDashboardPolled(oldUsed, k, newDashboard) == newDashboard

\* handleFinalize: the polled dashboard is kept, with its used tickets forced
\* to oldUsed + count when they have not increased ({...null, pendingTickets}
\* is a dashboard whose other fields are undefined)
FinalizeMergeDashboard(oldUsed, k, newDashboard) ==
    IF UsedTickets(newDashboard) <= oldUsed
    THEN [newDashboard EXCEPT !.present = TRUE, !.pendingTickets = oldUsed + k]
    ELSE newDashboard

\* faulty variant: the polled value is always adopted
MineMergePendingPolled(prev, polled) == polled

\* handleMine: setPendingMines(prev => Math.max(prev, newPending))
MineMergePending(prev, polled) == Max(prev, polled)

\* faulty variant: the ref is only set later, after the first await
RefOnEntryLate(ref) == ref

\* handleFinalize: finalizingRef.current = true, right after the guard
RefOnEntry(ref) == TRUE

\* faulty variant: a count of 0 is not noticed
CapReachedNever(countToFinalize) == FALSE

\* handleFinalize: countToFinalize <= 0
CapReached(countToFinalize) == countToFinalize <= 0

\* faulty variant: the poll keeps the larger of the shown and polled values
PollPendingKeepLarger(prev, polled) == Max(prev, polled)

\* loadData: setPendingMines(pendingResult)
PollPending(prev, polled) == polled

\* faulty variant: the finally block leaves the loading flag set
FinallyLoadingKept == TRUE

\* finally of handleFinalize: setIsLoading(false)
FinallyLoading == FALSE

\* faulty variant: the counter is lowered only once the refresh has resolved
OptimisticFinalizeNone(prev, countToFinalize) == prev

\* handleFinalize: setPendingMines(prev => Math.max(0, prev - countToFinalize))
OptimisticFinalize(prev, countToFinalize) == Max(0, prev - countToFinalize)

\* faulty variant: the debounce ref is not consulted
FinalizeBlockedNoRef(pm, ref) == pm <= 0

\* handleFinalize: pendingMines <= 0 || finalizingRef.current
FinalizeBlocked(pm, ref) == pm <= 0 \/ ref

\* faulty variant: only the pool counter bounds the claim
EffectivePoolVarOnly(poolVar, tokenBalance) == poolVar

\* getClaimableEpochsBatch: poolVar < tokenBalance ? poolVar : tokenBalance
EffectivePool(poolVar, tokenBalance) ==
    IF poolVar < tokenBalance THEN poolVar ELSE tokenBalance

\* faulty variant: a candidate that does not fit is passed over and the loop goes on
LoopBodyContinue(loc, epoch, amount) ==
    IF amount = 0 THEN loc
    ELSE IF loc.poolRemaining >= amount
         THEN [loc EXCEPT !.validEpochs = Append(@, epoch),
                          !.validAmounts = Append(@, amount),
                          !.runningTotal = @ + amount,
                          !.poolRemaining = @ - amount]
         ELSE loc

\* getClaimableEpochsBatch: the body of the for loop for one candidate;
\* stop is the break
LoopBody(loc, epoch, amount) ==
    IF amount = 0 THEN loc
    ELSE IF loc.poolRemaining >= amount
         THEN [loc EXCEPT !.validEpochs = Append(@, epoch),
                          !.validAmounts = Append(@, amount),
                          !.runningTotal = @ + amount,
                          !.poolRemaining = @ - amount]
         ELSE [loc EXCEPT !.stop = TRUE]

\* ------------------------------------------------------------------ Init
\* App() before the wallet is connected: the useState initial values
\* ------------------------------------------------------- persisted state
\* CONFIG.minerAddress of a build, and of a build for another deployment
Identities == {"0xA", "0xB"}

\* localStorage.getItem: null for a key that is not set, the text written
\* by JSON.stringify, or text that JSON.parse rejects
NullItem == [kind |-> "null"]
CorruptItem == [kind |-> "text"]
Stringify(value) == [kind |-> "json", value |-> value]

\* saved ? JSON.parse(saved) : [], inside try { } catch { return [] }
ParsedOrEmpty(saved) ==
    IF saved.kind = "json" THEN saved.value ELSE <<>>

\* faulty variant: the saved history is read before the identities are
\* compared
ClaimHistoryInitializerLoadsFirst(store, minerAddress) ==
    IF ~store.available
    THEN [value |-> <<>>, store |-> store]
    ELSE IF store.address # minerAddress
         THEN [value |-> ParsedOrEmpty(store.history),
               store |-> [store EXCEPT !.history = NullItem,
                                       !.wins = NullItem,
                                       !.address = minerAddress]]
         ELSE [value |-> ParsedOrEmpty(store.history), store |-> store]

\* the initializer of the claimHistory state: value is the initial state,
\* store the localStorage it leaves. Every call on a localStorage that is
\* not available throws, and the catch returns []
ClaimHistoryInitializer(store, minerAddress) ==
    IF ~store.available
    THEN [value |-> <<>>, store |-> store]
    ELSE IF store.address # minerAddress
         THEN [value |-> <<>>,
               store |-> [store EXCEPT !.history = NullItem,
                                       !.wins = NullItem,
                                       !.address = minerAddress]]
         ELSE [value |-> ParsedOrEmpty(store.history), store |-> store]

\* the initializer of the jackpotWins state
JackpotWinsInitializer(store) ==
    IF ~store.available THEN <<>> ELSE ParsedOrEmpty(store.wins)

\* localStorage.setItem('nara_claim_history', JSON.stringify(updatedHistory))
SaveHistory(store, updatedHistory) ==
    [store EXCEPT !.history = Stringify(updatedHistory)]

\* App mounted by this build on a localStorage without saved history
IdleStorage ==
    [mounted |-> TRUE, minerAddress |-> "0xA", jackpotWins |-> <<>>,
     store |-> [available |-> TRUE, address |-> "0xA", history |-> NullItem,
                wins |-> NullItem]]

AppStart ==
    /\ connected = FALSE
    /\ dashboard = NullDashboard
    /\ pendingMines = 0
    /\ ticketPrice = 0
    /\ isLoading = FALSE
    /\ isFinalizing = FALSE
    /\ finalizingRef = FALSE
    /\ miningPhase = ""
    /\ fin = [i \in FinIds |-> IdleFin]
    /\ mn = [m \in MineIds |-> IdleMine]
    /\ claimableData = NullClaimable
    /\ claimHistory = <<>>
    /\ claimMemo = <<>>
    /\ cl = [a \in ClaimIds |-> IdleClaim]
    /\ last = None
    /\ rm = Unsettled
    /\ wa = "0x1"

\* the finalize and mine protocols follow the pending-mines counter and
\* the caps
AppInit ==
    /\ AppStart
    /\ scope = {"pending", "cap"}

IdleMerge == [pc |-> "idle"]
IdleBatch == [pc |-> "idle"]
IdleCap == [pc |-> "idle"]

\* contracts.js: let provider = null; let providerIndex = 0 (-1 stands for
\* null, otherwise the index of the endpoint the provider was built for)
IdleReads == [pc |-> "idle", provider |-> -1, providerIndex |-> 0]

\* useState(180) of timeRemaining; ev is what changed it last
IdleTimer == [timeRemaining |-> 180, ev |-> "none"]

Init ==
    /\ AppInit
    /\ mg = IdleMerge
    /\ cb = IdleBatch
    /\ cp = IdleCap
    /\ rc = IdleReads
    /\ tm = IdleTimer
    /\ sn = IdleSanitize
    /\ mw = IdleWrite
    /\ st = IdleStorage

\* ------------------------------------------------- session and polling
\* useCallback(handleClaim, [claimableData, address]): the callback, and
\* with it the claimHistory it holds, is renewed when claimableData is set
\* to a new object (not when null is set again) or the address changes
Memo(newData, newHistory) ==
    IF claimableData.present \/ newData.present THEN newHistory ELSE claimMemo

\* useAccount reports a connected address; the effect starts loadData
Connect ==
    /\ ~connected
    /\ ~rm.settled
    /\ connected' = TRUE
    /\ claimMemo' = claimHistory
    /\ last' = None
    /\ UNCHANGED <<dashboard, pendingMines, ticketPrice, isLoading,
                   isFinalizing, finalizingRef, miningPhase, fin, mn>>
    /\ UNCHANGED <<pureVars, claimableData, claimHistory, cl, envVars>>

\* the effect body for !isConnected || !address
Disconnect ==
    /\ connected
    /\ ~rm.settled
    /\ connected' = FALSE
    /\ dashboard' = NullDashboard
    /\ claimableData' = NullClaimable
    /\ pendingMines' = 0
    /\ claimMemo' = claimHistory
    /\ last' = [op |-> "Disconnect"]
    /\ UNCHANGED <<ticketPrice, isLoading, isFinalizing, finalizingRef,
                   miningPhase, fin, mn>>
    /\ UNCHANGED <<pureVars, claimHistory, cl, envVars>>

\* loadData resolves (first load or 30 s interval).  getTicketPrice rethrows,
\* so a failed price read rejects Promise.all and nothing is set; the other
\* reads resolve to null / 0 when they fail.
LoadData ==
    /\ connected
    /\ \/ \E d \in DashboardNow, p \in PendingNow, c \in ClaimableNow,
             price \in PriceReads :
            /\ dashboard' = d
            /\ claimableData' = c
            /\ ticketPrice' = price
            /\ pendingMines' = PollPending(pendingMines, p)
            /\ claimMemo' = Memo(c, claimHistory)
       \/ /\ ~rm.settled
          /\ UNCHANGED <<dashboard, pendingMines, ticketPrice, claimableData,
                         claimMemo>>
    /\ last' = [op |-> "LoadData"]
    /\ UNCHANGED <<connected, isLoading, isFinalizing, finalizingRef,
                   miningPhase, fin, mn>>
    /\ UNCHANGED <<pureVars, claimHistory, cl, envVars>>

\* countdown reached 0: getUserDashboard(address).then(setDashboard)
EpochRefresh ==
    /\ connected
    /\ \E d \in DashboardNow : dashboard' = d
    /\ last' = [op |-> "EpochRefresh"]
    /\ UNCHANGED <<connected, pendingMines, ticketPrice, isLoading,
                   isFinalizing, finalizingRef, miningPhase, fin, mn>>
    /\ UNCHANGED <<pureVars, claimVars, envVars>>

\* ------------------------------------------------------- handleFinalize
\* catch and finally of handleFinalize: the error is shown unless the user
\* declined, then isLoading, isFinalizing and the ref are released
FinalizeCatch(i, kind) ==
    /\ isLoading' = FinallyLoading
    /\ isFinalizing' = FALSE
    /\ finalizingRef' = FALSE
    /\ fin' = [fin EXCEPT ![i] = IdleFin]
    /\ last' = [op |-> "FinalizeFailed", id |-> i,
                err |-> ShownError(kind, fin[i].pc), kind |-> kind,
                stage |-> fin[i].pc, writes |-> fin[i].writes,
                overlapped |-> fin[i].overlapped]

\* handleFinalize is activated: its synchronous part, up to the first await
\* inside finalizeMines
HandleFinalize(i) ==
    /\ connected
    /\ fin[i].pc = "idle"
    /\ IF FinalizeBlocked(pendingMines, finalizingRef)
       THEN /\ fin' = [k \in FinIds |->
                        IF fin[k].pc = "idle" THEN fin[k]
                        ELSE [fin[k] EXCEPT !.overlapped = TRUE]]
            /\ last' = [op |-> "FinalizeBlocked", id |-> i, err |-> "",
                        pending |-> pendingMines, ref |-> finalizingRef]
            /\ UNCHANGED <<isLoading, isFinalizing, finalizingRef>>
       ELSE LET cap == FinalizeCap(dashboard)
                used == UsedTickets(dashboard)
                available == Available(cap, used)
                countToFinalize == CountToFinalize(pendingMines, available)
            IN  IF CapReached(countToFinalize)
                THEN /\ finalizingRef' = FALSE
                     /\ isFinalizing' = FALSE
                     /\ last' = [op |-> "FinalizeCapReached", id |-> i,
                                 err |-> "EpochCapWait",
                                 pending |-> pendingMines,
                                 dashboard |-> dashboard]
                     /\ UNCHANGED <<isLoading, fin>>
                ELSE /\ finalizingRef' = RefOnEntry(finalizingRef)
                     /\ isFinalizing' = TRUE
                     /\ isLoading' = TRUE
                     /\ fin' = [k \in FinIds |->
                                 IF k = i
                                 THEN [pc |-> "preparing", pre |-> pendingMines,
                                       cap |-> cap, oldUsed |-> used,
                                       count |-> countToFinalize,
                                       writes |-> 0, overlapped |-> FALSE]
                                 ELSE IF fin[k].pc = "idle" THEN fin[k]
                                 ELSE [fin[k] EXCEPT !.overlapped = TRUE]]
                     /\ last' = [op |-> "FinalizeStarted", id |-> i]
    /\ UNCHANGED <<connected, dashboard, pendingMines, ticketPrice,
                   miningPhase, mn>>
    /\ UNCHANGED <<pureVars, claimVars, envVars>>

\* finalizeMines(count): ensureCorrectNetwork and getMinerContractWrite have
\* settled; either one of them failed, or minerWrite.finalizeMines is called
FinalizePrepare(i) ==
    /\ fin[i].pc = "preparing"
    /\ \/ \E kind \in Failures : FinalizeCatch(i, kind)
       \/ /\ fin' = [fin EXCEPT ![i].pc = "signing", ![i].writes = @ + 1]
          /\ last' = [op |-> "FinalizeWrite", id |-> i, count |-> fin[i].count,
                      gasLimit |-> FinalizeGasLimit(fin[i].count)]
          /\ UNCHANGED <<isLoading, isFinalizing, finalizingRef>>
    /\ UNCHANGED <<connected, dashboard, pendingMines, ticketPrice,
                   miningPhase, mn>>
    /\ UNCHANGED <<pureVars, claimVars, envVars>>

\* minerWrite.finalizeMines settles: tx returned and the counter lowered
\* optimistically, or the wallet / node refused
FinalizeSigned(i) ==
    /\ fin[i].pc = "signing"
    /\ \/ /\ \E kind \in Failures : FinalizeCatch(i, kind)
          /\ UNCHANGED pendingMines
       \/ /\ pendingMines' = OptimisticFinalize(pendingMines, fin[i].count)
          /\ fin' = [fin EXCEPT ![i].pc = "confirming"]
          /\ last' = [op |-> "FinalizeAccepted", id |-> i,
                      count |-> fin[i].count, before |-> pendingMines]
          /\ UNCHANGED <<isLoading, isFinalizing, finalizingRef>>
    /\ UNCHANGED <<connected, dashboard, ticketPrice, miningPhase, mn>>
    /\ UNCHANGED <<pureVars, claimVars, envVars>>

\* tx.wait() settles: confirmed, the two refresh reads are started; or failed
FinalizeConfirmed(i) ==
    /\ fin[i].pc = "confirming"
    /\ \/ \E kind \in Failures : FinalizeCatch(i, kind)
       \/ /\ fin' = [fin EXCEPT ![i].pc = "refreshing"]
          /\ last' = [op |-> "FinalizeConfirmed", id |-> i]
          /\ UNCHANGED <<isLoading, isFinalizing, finalizingRef>>
    /\ UNCHANGED <<connected, dashboard, pendingMines, ticketPrice,
                   miningPhase, mn>>
    /\ UNCHANGED <<pureVars, claimVars, envVars>>

\* the refresh reads resolve: reconciliation of the pending counter and of
\* the used tickets, then the finally block
FinalizeRefreshed(i) ==
    /\ fin[i].pc = "refreshing"
    /\ \E newPending \in PendingNow, newDashboard \in DashboardNow :
          LET oldUsed == fin[i].oldUsed
              newUsed == UsedTickets(newDashboard)
          IN  /\ pendingMines' = FinalizeMergePending(pendingMines, fin[i].pre,
                                                      fin[i].count, newPending)
              /\ dashboard' = FinalizeMergeDashboard(oldUsed, fin[i].count,
                                                     newDashboard)
              /\ last' = [op |-> "FinalizeDone", id |-> i, pre |-> fin[i].pre,
                          count |-> fin[i].count, polled |-> newPending,
                          before |-> pendingMines, oldUsed |-> oldUsed,
                          newUsed |-> newUsed, writes |-> fin[i].writes,
                          overlapped |-> fin[i].overlapped]
    /\ isLoading' = FinallyLoading
    /\ isFinalizing' = FALSE
    /\ finalizingRef' = FALSE
    /\ fin' = [fin EXCEPT ![i] = IdleFin]
    /\ UNCHANGED <<connected, ticketPrice, miningPhase, mn>>
    /\ UNCHANGED <<pureVars, claimVars, envVars>>

\* ----------------------------------------------------------- handleMine
\* catch of handleMine: the error is shown unless the user declined, the
\* phase is cleared and the rollback read getPendingMines is awaited
MineCatchErr(m, err, kind) ==
    /\ miningPhase' = ""
    /\ mn' = [mn EXCEPT ![m].pc = "rollback"]
    /\ last' = [op |-> "MineFailed", err |-> ShownMsg(err),
                kind |-> kind, stage |-> mn[m].pc, writes |-> mn[m].writes]

\* the same for a failure of the wallet, the provider or the transaction
MineCatch(m, kind) == MineCatchErr(m, Thrown(kind, mn[m].pc), kind)

\* handleMine is activated with `tickets` in the input: its synchronous
\* part, the local pre-flight checks, up to the first await inside mine()
HandleMine(m) ==
    /\ connected
    /\ mn[m].pc = "idle"
    /\ pendingMines < MaxPending
    /\ \E tickets \in TicketInputs :
        LET effectiveCap == MineCap(dashboard)
            currentTickets == UsedTickets(dashboard)
            pendingInQueue == pendingMines
            remainingCap == RemainingCap(effectiveCap, currentTickets,
                                         pendingInQueue)
            isPreciseCap == IsPreciseCap(dashboard)
            Reject(e) ==
                /\ last' = [op |-> "MineRejected", err |-> e,
                            tickets |-> tickets, remainingCap |-> remainingCap]
                /\ UNCHANGED <<isLoading, miningPhase, mn>>
        IN  IF tickets <= 0 THEN Reject("EnterValidAmount")
            ELSE IF ticketPrice = 0 THEN Reject("LoadingPrice")
            ELSE IF effectiveCap > 0 /\ remainingCap <= 0 /\ isPreciseCap
                 THEN Reject("EpochCapReached")
            ELSE IF isPreciseCap /\ tickets > remainingCap
                 THEN Reject("OnlyNMore")
            ELSE IF tickets * ticketPrice > MAX_ETH THEN Reject("MaxEth")
            ELSE /\ isLoading' = TRUE
                 /\ miningPhase' = "preparing"
                 /\ mn' = [mn EXCEPT ![m] =
                            [pc |-> "preparing", tickets |-> tickets,
                             pre |-> pendingInQueue, writes |-> 0]]
                 /\ last' = [op |-> "MineStarted", id |-> m, err |-> "",
                             tickets |-> tickets,
                             remainingCap |-> remainingCap]
    /\ UNCHANGED <<connected, dashboard, pendingMines, ticketPrice,
                   isFinalizing, finalizingRef, fin>>
    /\ UNCHANGED <<pureVars, claimVars, envVars>>

\* mine(ticketCount, expectedAddress): its awaits up to the write have
\* settled; a call threw (ensureCorrectNetwork, getSigner, a read), or a
\* check failed, or minerWrite.requestMine(ticketCount, {value: cost}) is
\* called
MinePrepare(m) ==
    /\ mn[m].pc = "preparing"
    /\ \/ /\ \E kind \in Failures : MineCatch(m, kind)
       \/ /\ \E env \in MineEnvs, unitWei \in PriceReads :
                LET err == MinePreflight(mn[m].tickets, env, unitWei)
                IN  IF err # NoError
                    THEN MineCatchErr(m, err, "preflight")
                    ELSE /\ last' = [op |-> "MineWrite", id |-> m,
                                     tickets |-> mn[m].tickets,
                                     value |-> mn[m].tickets * unitWei,
                                     env |-> env]
                         /\ mn' = [mn EXCEPT ![m].pc = "signing",
                                             ![m].writes = @ + 1]
                         /\ UNCHANGED miningPhase
    /\ UNCHANGED <<connected, dashboard, pendingMines, ticketPrice, isLoading,
                   isFinalizing, finalizingRef, fin>>
    /\ UNCHANGED <<pureVars, claimVars, envVars>>

\* minerWrite.requestMine settles: tx returned, the counter raised
\* optimistically and the pending card shown; or the wallet / node refused
MineSigned(m) ==
    /\ mn[m].pc = "signing"
    /\ \/ /\ \E kind \in Failures : MineCatch(m, kind)
          /\ UNCHANGED <<pendingMines, isLoading>>
       \/ /\ pendingMines' = pendingMines + 1
          /\ isLoading' = FALSE
          /\ miningPhase' = "waiting"
          /\ mn' = [mn EXCEPT ![m].pc = "confirming"]
          /\ last' = [op |-> "MineAccepted", id |-> m,
                      before |-> pendingMines]
    /\ UNCHANGED <<connected, dashboard, ticketPrice, isFinalizing,
                   finalizingRef, fin>>
    /\ UNCHANGED <<pureVars, claimVars, envVars>>

\* tx.wait() settles: confirmed, the refresh read is started; or failed
MineConfirmed(m) ==
    /\ mn[m].pc = "confirming"
    /\ \/ \E kind \in Failures : MineCatch(m, kind)
       \/ /\ miningPhase' = ""
          /\ mn' = [mn EXCEPT ![m].pc = "refreshing"]
          /\ last' = [op |-> "MineConfirmed"]
    /\ UNCHANGED <<connected, dashboard, pendingMines, ticketPrice, isLoading,
                   isFinalizing, finalizingRef, fin>>
    /\ UNCHANGED <<pureVars, claimVars, envVars>>

\* the refresh read resolves: reconciliation, then the finally block
MineRefreshed(m) ==
    /\ mn[m].pc = "refreshing"
    /\ \E newPending \in PendingNow :
        /\ pendingMines' = MineMergePending(pendingMines, newPending)
        /\ last' = [op |-> "MineDone", pre |-> mn[m].pre,
                    before |-> pendingMines, polled |-> newPending]
    /\ isLoading' = FALSE
    /\ miningPhase' = ""
    /\ mn' = [mn EXCEPT ![m] = IdleMine]
    /\ UNCHANGED <<connected, dashboard, ticketPrice, isFinalizing,
                   finalizingRef, fin>>
    /\ UNCHANGED <<pureVars, claimVars, envVars>>

\* the rollback read of the catch block resolves (0 when it fails), then
\* the finally block
MineRollback(m) ==
    /\ mn[m].pc = "rollback"
    /\ \E actualPending \in PendingNow :
        /\ pendingMines' = actualPending
        /\ last' = [op |-> "MineRolledBack",
                    polled |-> actualPending]
    /\ isLoading' = FALSE
    /\ miningPhase' = ""
    /\ mn' = [mn EXCEPT ![m] = IdleMine]
    /\ UNCHANGED <<connected, dashboard, ticketPrice, isFinalizing,
                   finalizingRef, fin>>
    /\ UNCHANGED <<pureVars, claimVars, envVars>>

\* ---------------------------------------------------------- handleClaim
\* faulty variant: the refreshed set is stored as it was read
FilterClaimedNothing(newClaimable, epochsToClaim) == newClaimable

\* handleClaim: the epochs just claimed are taken out of the refreshed set;
\* amounts and total are emptied only when no epoch is left
FilterClaimed(newClaimable, epochsToClaim) ==
    IF ~newClaimable.present THEN newClaimable
    ELSE LET claimed == {epochsToClaim[x] : x \in 1..Len(epochsToClaim)}
             NotClaimed(e) == e \notin claimed
             kept == SelectSeq(newClaimable.epochs, NotClaimed)
         IN  IF Len(kept) = 0
             THEN [newClaimable EXCEPT !.epochs = kept, !.amounts = <<>>,
                                       !.totalClaimable = 0]
             ELSE [newClaimable EXCEPT !.epochs = kept]

\* handleClaim: [newHistoryEntry, ...claimHistory].slice(0, 10); the entry's
\* timestamp is left out, and of the transaction txHash names its sender is
\* kept
UpdatedHistory(history, epochsToClaim, amountToClaim, txFrom) ==
    LET all == <<[epochs |-> epochsToClaim, amount |-> amountToClaim,
                  from |-> txFrom]>> \o history
    IN  SubSeq(all, 1, Min(Len(all), HISTORY_CAP))

\* faulty variant: the entry is saved whether or not the claim confirmed
HistoryAfterWaitAlways(confirmed, current, act) ==
    UpdatedHistory(act.history, act.epochs, act.amount, act.from)

\* handleClaim: the history after await tx.wait(); when it throws, the lines
\* that build and save the entry are skipped
HistoryAfterWait(confirmed, current, act) ==
    IF confirmed THEN UpdatedHistory(act.history, act.epochs, act.amount, act.from)
    ELSE current

\* catch and finally of handleClaim: the error is shown unless the user
\* declined, then isLoading is released
ClaimCatch(a, kind) ==
    /\ isLoading' = FALSE
    /\ cl' = [cl EXCEPT ![a] = IdleClaim]
    /\ last' = [op |-> "ClaimFailed", id |-> a, err |-> ShownError(kind, cl[a].pc),
                kind |-> kind, stage |-> cl[a].pc, writes |-> cl[a].writes,
                epochs |-> cl[a].epochs]

\* handleClaim is activated: its synchronous part, up to the first await
\* inside claimBatch
HandleClaim(a) ==
    /\ connected
    /\ cl[a].pc = "idle"
    /\ Len(claimHistory) < MaxClaims
    /\ IF ~claimableData.present \/ Len(claimableData.epochs) = 0
       THEN /\ last' = [op |-> "ClaimRejected", id |-> a, err |-> "NothingToClaim"]
            /\ UNCHANGED <<isLoading, cl>>
       ELSE /\ isLoading' = TRUE
            /\ cl' = [cl EXCEPT ![a] =
                        [pc |-> "preparing", epochs |-> claimableData.epochs,
                         amount |-> claimableData.totalClaimable,
                         history |-> claimMemo, writes |-> 0,
                         from |-> ""]]
            /\ last' = [op |-> "ClaimStarted", id |-> a]
    /\ UNCHANGED <<connected, dashboard, pendingMines, ticketPrice,
                   isFinalizing, finalizingRef, miningPhase, fin, mn,
                   claimableData, claimHistory, claimMemo>>
    /\ UNCHANGED <<pureVars, envVars>>

\* claimBatch(epochs): ensureCorrectNetwork, getMinerContractWrite and the
\* length checks have settled; one of them failed, or minerWrite.claim (one
\* epoch) / minerWrite.claimBatch is called
ClaimPrepare(a) ==
    /\ cl[a].pc = "preparing"
    /\ \/ \E kind \in Failures : ClaimCatch(a, kind)
       \/ /\ Len(cl[a].epochs) >= 1
          /\ cl' = [cl EXCEPT ![a].pc = "signing", ![a].writes = @ + 1,
                               ![a].from = wa]
          /\ last' = [op |-> "ClaimWrite", id |-> a, epochs |-> cl[a].epochs,
                      fn |-> IF Len(cl[a].epochs) = 1 THEN "claim"
                             ELSE "claimBatch",
                      gasLimit |-> ClaimGasLimit(Len(cl[a].epochs))]
          /\ UNCHANGED isLoading
    /\ UNCHANGED <<connected, dashboard, pendingMines, ticketPrice,
                   isFinalizing, finalizingRef, miningPhase, fin, mn,
                   claimableData, claimHistory, claimMemo>>
    /\ UNCHANGED <<pureVars, envVars>>

\* the write settles: tx returned and the claimable set emptied
\* optimistically, or the wallet / node refused
ClaimSigned(a) ==
    /\ cl[a].pc = "signing"
    /\ \/ /\ \E kind \in Failures : ClaimCatch(a, kind)
          /\ UNCHANGED <<claimableData, claimMemo>>
       \/ /\ claimableData' = EmptyClaimable
          /\ claimMemo' = Memo(EmptyClaimable, claimHistory)
          /\ cl' = [cl EXCEPT ![a].pc = "confirming"]
          /\ last' = [op |-> "ClaimAccepted", id |-> a, before |-> claimableData]
          /\ UNCHANGED isLoading
    /\ UNCHANGED <<connected, dashboard, pendingMines, ticketPrice,
                   isFinalizing, finalizingRef, miningPhase, fin, mn,
                   claimHistory>>
    /\ UNCHANGED <<pureVars, envVars>>

\* tx.wait() settles: confirmed, the entry is put in the history and saved
\* and the two refresh reads are started; or failed. When localStorage is
\* not available setItem throws after setClaimHistory
ClaimConfirmed(a) ==
    /\ cl[a].pc = "confirming"
    /\ \/ /\ \E kind \in Failures : ClaimCatch(a, kind)
          /\ claimHistory' = HistoryAfterWait(FALSE, claimHistory, cl[a])
          /\ UNCHANGED st
       \/ /\ claimHistory' = HistoryAfterWait(TRUE, claimHistory, cl[a])
          /\ IF st.store.available
             THEN /\ st' = [st EXCEPT !.store = SaveHistory(@, claimHistory')]
                  /\ cl' = [cl EXCEPT ![a].pc = "refreshing"]
                  /\ last' = [op |-> "ClaimConfirmed", id |-> a]
                  /\ UNCHANGED isLoading
             ELSE /\ ClaimCatch(a, "failed")
                  /\ UNCHANGED st
    /\ UNCHANGED <<connected, dashboard, pendingMines, ticketPrice,
                   isFinalizing, finalizingRef, miningPhase, fin, mn,
                   claimableData, claimMemo>>
    /\ UNCHANGED <<pureVars, rm, scope, wa>>

\* the refresh reads resolve: the claimable set without the epochs just
\* claimed and the dashboard are stored, then the finally block
ClaimRefreshed(a) ==
    /\ cl[a].pc = "refreshing"
    /\ \E newClaimable \in ClaimableNow, newDashboard \in DashboardNow :
          /\ claimableData' = FilterClaimed(newClaimable, cl[a].epochs)
          /\ claimMemo' = Memo(newClaimable, claimHistory)
          /\ dashboard' = newDashboard
          /\ last' = [op |-> "ClaimDone", id |-> a, epochs |-> cl[a].epochs,
                      polled |-> newClaimable]
    /\ isLoading' = FALSE
    /\ cl' = [cl EXCEPT ![a] = IdleClaim]
    /\ UNCHANGED <<connected, pendingMines, ticketPrice, isFinalizing,
                   finalizingRef, miningPhase, fin, mn, claimHistory>>
    /\ UNCHANGED <<pureVars, envVars>>

\* ------------------------------------ the reconciliation merge on its own
\* a merge is about to be applied to the displayed counter val: rule is the
\* handler, pre and k the pending mines before the operation and the count
\* finalized, polled the refresh read; once is the counter after the first
\* application
MergeInputs ==
    {[pc |-> "ready", rule |-> r, pre |-> pre, k |-> k, polled |-> polled,
      start |-> v, val |-> v, once |-> v, applied |-> 0] :
        r \in {"finalize", "mine"}, pre \in 1..MaxCount, k \in 1..MaxCount,
        polled \in PendingReads, v \in 0..MaxPending}

InitMerge ==
    /\ AppInit
    /\ mg \in {m \in MergeInputs : m.k <= m.pre /\ (m.rule = "mine" => m.k = 1)}
    /\ cb = IdleBatch
    /\ cp = IdleCap
    /\ rc = IdleReads
    /\ tm = IdleTimer
    /\ sn = IdleSanitize
    /\ mw = IdleWrite
    /\ st = IdleStorage

MergeApplied(val) ==
    mg' = [mg EXCEPT !.val = val, !.applied = @ + 1,
                     !.once = IF mg.applied = 0 THEN val ELSE @]

\* the reconciliation of handleFinalize applied to the counter
ApplyFinalizeMerge ==
    /\ mg.pc = "ready"
    /\ mg.rule = "finalize"
    /\ mg.applied < 2
    /\ MergeApplied(FinalizeMergePending(mg.val, mg.pre, mg.k, mg.polled))
    /\ UNCHANGED <<appVars, butMg>>

\* the reconciliation of handleMine applied to the counter
ApplyMineMerge ==
    /\ mg.pc = "ready"
    /\ mg.rule = "mine"
    /\ mg.applied < 2
    /\ MergeApplied(MineMergePending(mg.val, mg.polled))
    /\ UNCHANGED <<appVars, butMg>>

NextMerge ==
    \/ ApplyFinalizeMerge
    \/ ApplyMineMerge

SpecMerge == InitMerge /\ [][NextMerge]_vars

\* ------------------------------------------- getClaimableEpochsBatch alone
\* the sequences of up to MaxEpochs amounts
RECURSIVE AmountSeqs(_)
AmountSeqs(n) ==
    IF n = 0 THEN {<<>>}
    ELSE AmountSeqs(n - 1) \cup
         {Append(q, a) : q \in {x \in AmountSeqs(n - 1) : Len(x) = n - 1},
                         a \in 0..MaxAmount}

\* the three reads of Promise.all have resolved: the candidates in the
\* order of the remote read (epoch numbers ascending), the pool counter and
\* the token balance of the miner
BatchReads ==
    {[pc |-> "read", epochs |-> [x \in 1..Len(am) |-> x], amounts |-> am,
      poolVar |-> pool, tokenBalance |-> bal, i |-> 0,
      loc |-> [validEpochs |-> <<>>, validAmounts |-> <<>>, runningTotal |-> 0,
               poolRemaining |-> 0, stop |-> FALSE]] :
        am \in AmountSeqs(MaxEpochs), pool \in 0..MaxPool, bal \in 0..MaxPool}

InitBatch ==
    /\ AppInit
    /\ mg = IdleMerge
    /\ cb \in BatchReads
    /\ cp = IdleCap
    /\ rc = IdleReads
    /\ tm = IdleTimer
    /\ sn = IdleSanitize
    /\ mw = IdleWrite
    /\ st = IdleStorage

\* effectivePool and the initial values of the locals
BatchStart ==
    /\ cb.pc = "read"
    /\ cb' = [cb EXCEPT !.pc = "loop", !.i = 1,
                        !.loc.poolRemaining =
                            EffectivePool(cb.poolVar, cb.tokenBalance)]
    /\ UNCHANGED <<appVars, butCb>>

\* one iteration of the for loop
BatchIterate ==
    /\ cb.pc = "loop"
    /\ ~cb.loc.stop
    /\ cb.i <= Len(cb.epochs)
    /\ cb' = [cb EXCEPT !.i = @ + 1,
                        !.loc = LoopBody(@, cb.epochs[cb.i], cb.amounts[cb.i])]
    /\ UNCHANGED <<appVars, butCb>>

\* the loop is left, by its condition or by break, and the result returned
\* (amounts and total before ethers.formatEther)
BatchReturn ==
    /\ cb.pc = "loop"
    /\ cb.loc.stop \/ cb.i > Len(cb.epochs)
    /\ cb' = [cb EXCEPT !.pc = "done"]
    /\ UNCHANGED <<appVars, butCb>>

NextBatch ==
    \/ BatchStart
    \/ BatchIterate
    \/ BatchReturn

SpecBatch == InitBatch /\ [][NextBatch]_vars

\* --------------------------------------------- the capacity computations
CapInputs ==
    {[pc |-> "ready", by |-> "", cap |-> c, used |-> u, pendingLocal |-> p,
      result |-> 0] :
        c \in 0..MaxCap, u \in 0..MaxUsed, p \in 0..MaxCount}

InitCap ==
    /\ AppInit
    /\ mg = IdleMerge
    /\ cb = IdleBatch
    /\ cp \in CapInputs
    /\ rc = IdleReads
    /\ tm = IdleTimer
    /\ sn = IdleSanitize
    /\ mw = IdleWrite
    /\ st = IdleStorage

\* handleFinalize computes available from cap and used
CapFinalize ==
    /\ cp.pc = "ready"
    /\ cp' = [cp EXCEPT !.pc = "done", !.by = "finalize",
                        !.result = Available(cp.cap, cp.used)]
    /\ UNCHANGED <<appVars, butCp>>

\* handleMine computes remainingCap from cap, used and the pending mines
CapMine ==
    /\ cp.pc = "ready"
    /\ cp' = [cp EXCEPT !.pc = "done", !.by = "mine",
                        !.result = RemainingCap(cp.cap, cp.used,
                                                cp.pendingLocal)]
    /\ UNCHANGED <<appVars, butCp>>

NextCap ==
    \/ CapFinalize
    \/ CapMine

SpecCap == InitCap /\ [][NextCap]_vars

\* --------------------------------------------------- the read client
\* the read functions whose failure handling is modelled
ReadFns == {"getPendingMines", "getUserDashboard"}

\* getProvider(): the cached provider, or a new one for
\* RPC_ENDPOINTS[providerIndex] when none is cached
GetProvider(provider, providerIndex) ==
    IF provider = -1 THEN providerIndex ELSE provider

\* resetProvider(): the cache is dropped and the index moves to the next
\* endpoint, wrapping around
ResetProvider(providerIndex) == (providerIndex + 1) % RPC_ENDPOINTS_LENGTH

\* getPendingMines: userRequestCount - userClaimedCount, 0 when a read fails
PendingResult(requested, claimed, failed) ==
    IF failed THEN 0 ELSE requested - claimed

\* getUserDashboard: the snapshot, null when a read fails
DashboardResult(d, failed) == IF failed THEN NullDashboard ELSE d

InitReads ==
    /\ AppInit
    /\ mg = IdleMerge
    /\ cb = IdleBatch
    /\ cp = IdleCap
    /\ rc = IdleReads
    /\ tm = IdleTimer
    /\ sn = IdleSanitize
    /\ mw = IdleWrite
    /\ st = IdleStorage

\* a read function is called: the contract is built on getProvider() and
\* the calls to the endpoint are sent
ReadCall ==
    /\ rc.pc \in {"idle", "returned"}
    /\ \E fn \in ReadFns, requested \in 0..MaxCount, claimed \in 0..MaxCount,
          d \in DashboardReads :
          /\ claimed <= requested
          /\ rc' = [pc |-> "called", fn |-> fn,
                    provider |-> GetProvider(rc.provider, rc.providerIndex),
                    providerIndex |-> rc.providerIndex,
                    requested |-> requested, claimed |-> claimed,
                    ledger |-> d]
    /\ UNCHANGED <<appVars, butRc>>

\* the calls settle: all succeeded, or one failed or timed out and the
\* catch block of the read function returns its substitute
ReadSettle ==
    /\ rc.pc = "called"
    /\ \E failed \in BOOLEAN :
          rc' = [pc |-> "returned", fn |-> rc.fn, failed |-> failed,
                 used |-> rc.provider,
                 provider |-> rc.provider,
                 providerIndex |-> rc.providerIndex,
                 requested |-> rc.requested, claimed |-> rc.claimed,
                 ledger |-> rc.ledger,
                 threw |-> FALSE,
                 pending |-> PendingResult(rc.requested, rc.claimed, failed),
                 dashboard |-> DashboardResult(rc.ledger, failed)]
    /\ UNCHANGED <<appVars, butRc>>

NextReads ==
    \/ ReadCall
    \/ ReadSettle

SpecReads == InitReads /\ [][NextReads]_vars

\* ------------------------------------------------------- the countdown
\* faulty variant: the countdown goes on below zero
TickValueNoReset(prev) == prev - 1

\* the updater of setTimeRemaining in the 1-second interval
TickValue(prev) == IF prev > 0 THEN prev - 1 ELSE EPOCH_SECONDS

\* the updater's side effect: at zero, with a connected address,
\* getUserDashboard(address).then(setDashboard) is started
TickRefreshes(prev, isConnected) == ~(prev > 0) /\ isConnected

\* the 1-second interval fires
Tick ==
    /\ tm' = [timeRemaining |-> TickValue(tm.timeRemaining), ev |-> "tick",
              prev |-> tm.timeRemaining, connected |-> connected,
              refresh |-> TickRefreshes(tm.timeRemaining, connected)]
    /\ UNCHANGED <<appVars, butTm>>

\* loadData resolved with a dashboard:
\* setTimeRemaining(dashboardResult.epochSecondsRemaining)
TimerSync ==
    /\ connected
    /\ \E epochSecondsRemaining \in 0..MaxRemaining :
          tm' = [timeRemaining |-> epochSecondsRemaining, ev |-> "sync"]
    /\ UNCHANGED <<appVars, butTm>>

NextCountdown ==
    \/ Connect
    \/ Disconnect
    \/ TimerSync
    \/ Tick

SpecCountdown == Init /\ [][NextCountdown]_vars

\* ------------------------------------------------------------------ Next
\* session and polling, common to every specification
NextSession ==
    \/ Connect
    \/ Disconnect
    \/ LoadData
    \/ EpochRefresh

NextFinalize ==
    \/ NextSession
    \/ \E i \in FinIds : HandleFinalize(i)
    \/ \E i \in FinIds : FinalizePrepare(i)
    \/ \E i \in FinIds : FinalizeSigned(i)
    \/ \E i \in FinIds : FinalizeConfirmed(i)
    \/ \E i \in FinIds : FinalizeRefreshed(i)

NextMine ==
    \/ NextSession
    \/ HandleMine(1)
    \/ MinePrepare(1)
    \/ MineSigned(1)
    \/ MineConfirmed(1)
    \/ MineRefreshed(1)
    \/ MineRollback(1)

\* the ledger stops changing and from now on every read succeeds with its
\* values; the session lasts and the user starts nothing more
Settle ==
    /\ connected
    /\ ~rm.settled
    /\ \E p \in 0..MaxCount, u \in 0..MaxUsed :
          rm' = [settled |-> TRUE, pending |-> p,
                 dashboard |-> [present |-> TRUE, effectiveCap |-> MaxCap,
                                hardCap |-> MaxCap, pendingTickets |-> u]]
    /\ UNCHANGED <<appVarsButEnv, scope, st, wa, pureVars>>

\* the finalize protocol until the ledger settles, then what is in flight
\* and the polls
NextConverge ==
    \/ NextSession
    \/ Settle
    \/ ~rm.settled /\ HandleFinalize(1)
    \/ FinalizePrepare(1)
    \/ FinalizeSigned(1)
    \/ FinalizeConfirmed(1)
    \/ FinalizeRefreshed(1)

\* one finalize at a time, the cap of the ledger fixed
InitConverge ==
    /\ AppStart
    /\ scope = {"pending"}
    /\ mg = IdleMerge
    /\ cb = IdleBatch
    /\ cp = IdleCap
    /\ rc = IdleReads
    /\ tm = IdleTimer
    /\ sn = IdleSanitize
    /\ mw = IdleWrite
    /\ st = IdleStorage

\* setInterval(loadData, 30000) keeps polling while the session lasts
SpecConverge ==
    InitConverge /\ [][NextConverge]_vars
    /\ WF_vars(Settle) /\ WF_vars(LoadData)

NextClaim ==
    \/ NextSession
    \/ HandleClaim(1)
    \/ ClaimPrepare(1)
    \/ ClaimSigned(1)
    \/ ClaimConfirmed(1)
    \/ ClaimRefreshed(1)

\* the claim protocol follows the claimable set
InitClaim ==
    /\ AppStart
    /\ scope = {"claimable"}
    /\ mg = IdleMerge
    /\ cb = IdleBatch
    /\ cp = IdleCap
    /\ rc = IdleReads
    /\ tm = IdleTimer
    /\ sn = IdleSanitize
    /\ mw = IdleWrite
    /\ st = IdleStorage

\* the claim protocol under polls and session changes
SpecClaim == InitClaim /\ [][NextClaim]_vars

\* one of the three protocols per behaviour
NextProtocols ==
    \/ NextSession
    \/ "finalize" \in scope /\ \E i \in FinIds : HandleFinalize(i)
    \/ \E i \in FinIds : FinalizePrepare(i)
    \/ \E i \in FinIds : FinalizeSigned(i)
    \/ \E i \in FinIds : FinalizeConfirmed(i)
    \/ \E i \in FinIds : FinalizeRefreshed(i)
    \/ "mine" \in scope /\ HandleMine(1)
    \/ MinePrepare(1)
    \/ MineSigned(1)
    \/ MineConfirmed(1)
    \/ MineRefreshed(1)
    \/ MineRollback(1)
    \/ "claim" \in scope /\ HandleClaim(1)
    \/ ClaimPrepare(1)
    \/ ClaimSigned(1)
    \/ ClaimConfirmed(1)
    \/ ClaimRefreshed(1)

InitProtocols ==
    /\ AppStart
    /\ scope \in {{"pending", "cap", "finalize"}, {"pending", "cap", "mine"},
                  {"claimable", "claim"}}
    /\ mg = IdleMerge
    /\ cb = IdleBatch
    /\ cp = IdleCap
    /\ rc = IdleReads
    /\ tm = IdleTimer
    /\ sn = IdleSanitize
    /\ mw = IdleWrite
    /\ st = IdleStorage

\* each of the three protocols under polls and session changes
SpecProtocols == InitProtocols /\ [][NextProtocols]_vars

\* the Claim button: disabled={isLoading || !hasClaimable}
ClaimEnabled ==
    /\ ~isLoading
    /\ claimableData.present
    /\ Len(claimableData.epochs) > 0

\* handleKeyDown: Enter in the ticket input calls handleMine if !isLoading
MineEnabled == ~isLoading

\* claims next to a mine, started from the page: a handler is started only
\* while its control is enabled; a mine is started while nothing is pending,
\* claims are started until one has confirmed, and the claim activations are
\* numbered in the order in which they start
NextOverlap ==
    \/ Connect
    \/ LoadData
    \/ MineEnabled /\ pendingMines = 0 /\ HandleMine(1)
    \/ MinePrepare(1)
    \/ MineSigned(1)
    \/ MineConfirmed(1)
    \/ MineRefreshed(1)
    \/ MineRollback(1)
    \/ \E a \in ClaimIds :
          /\ ClaimEnabled
          /\ claimHistory = <<>>
          /\ \A b \in ClaimIds : b < a => cl[b].pc # "idle"
          /\ HandleClaim(a)
    \/ \E a \in ClaimIds : ClaimPrepare(a)
    \/ \E a \in ClaimIds : ClaimSigned(a)
    \/ \E a \in ClaimIds : ClaimConfirmed(a)
    \/ \E a \in ClaimIds : ClaimRefreshed(a)

\* claims next to mines, under polls of the claimable set
SpecOverlap == InitClaim /\ [][NextOverlap]_vars

\* mines next to each other, started from the page: handleMine is started
\* only while the Enter key would call it, and the activations are numbered
\* in the order in which they start
NextMines ==
    \/ Connect
    \/ LoadData
    \/ \E m \in MineIds :
          /\ MineEnabled
          /\ \A b \in MineIds : b < m => mn[b].pc # "idle"
          /\ HandleMine(m)
    \/ \E m \in MineIds : MinePrepare(m)
    \/ \E m \in MineIds : MineSigned(m)
    \/ \E m \in MineIds : MineConfirmed(m)
    \/ \E m \in MineIds : MineRefreshed(m)
    \/ \E m \in MineIds : MineRollback(m)

\* the cap of the ledger fixed, the pending count read as it is shown
InitMines ==
    /\ AppStart
    /\ scope = {"mine"}
    /\ mg = IdleMerge
    /\ cb = IdleBatch
    /\ cp = IdleCap
    /\ rc = IdleReads
    /\ tm = IdleTimer
    /\ sn = IdleSanitize
    /\ mw = IdleWrite
    /\ st = IdleStorage

\* overlapping mines under polls of the dashboard
SpecMines == InitMines /\ [][NextMines]_vars

\* loadData with the outcome of getPendingMines spelled out: the two counts
\* of the ledger, or a failure of one of the two calls
LoadDataRead ==
    /\ connected
    /\ \E d \in DashboardNow, c \in ClaimableNow, price \in PriceReads,
          requested \in 0..MaxCount, claimed \in 0..MaxCount,
          failed \in BOOLEAN :
          LET pendingResult == PendingResult(requested, claimed, failed)
          IN  /\ claimed <= requested
              /\ dashboard' = d
              /\ claimableData' = c
              /\ ticketPrice' = price
              /\ pendingMines' = PollPending(pendingMines, pendingResult)
              /\ claimMemo' = Memo(c, claimHistory)
              /\ last' = [op |-> "LoadData", failed |-> failed,
                          ledger |-> requested - claimed,
                          before |-> pendingMines]
    /\ UNCHANGED <<connected, isLoading, isFinalizing, finalizingRef,
                   miningPhase, fin, mn>>
    /\ UNCHANGED <<pureVars, claimHistory, cl, envVars>>

\* the rollback of handleMine with the outcome of getPendingMines spelled
\* out; getPendingMines never rejects, so .catch(() => 0) is never taken
MineRollbackRead(m) ==
    /\ mn[m].pc = "rollback"
    /\ \E requested \in 0..MaxCount, claimed \in 0..MaxCount,
          failed \in BOOLEAN :
          LET actualPending == PendingResult(requested, claimed, failed)
          IN  /\ claimed <= requested
              /\ pendingMines' = actualPending
              /\ last' = [op |-> "MineRolledBack", failed |-> failed,
                          ledger |-> requested - claimed,
                          before |-> pendingMines]
    /\ isLoading' = FALSE
    /\ miningPhase' = ""
    /\ mn' = [mn EXCEPT ![m] = IdleMine]
    /\ UNCHANGED <<connected, dashboard, ticketPrice, isFinalizing,
                   finalizingRef, fin>>
    /\ UNCHANGED <<pureVars, claimVars, envVars>>

NextPending ==
    \/ Connect
    \/ LoadDataRead
    \/ HandleMine(1)
    \/ MinePrepare(1)
    \/ MineSigned(1)
    \/ MineConfirmed(1)
    \/ MineRefreshed(1)
    \/ MineRollbackRead(1)

\* polls and mines whose reads of the pending count may fail
SpecPending == InitMines /\ [][NextPending]_vars

NextSanitize ==
    \/ SanitizeThrow
    \/ SanitizeCatch
    \/ SanitizeClear

\* every raw error through the catch blocks
SpecSanitize == Init /\ [][NextSanitize]_vars

NextWrite ==
    \/ MineCall
    \/ MineSubmit
    \/ MineReturn

\* every call of mine()
SpecWrite == Init /\ [][NextWrite]_vars

\* the wallet changes to another of its accounts: useAccount reports the new
\* address; the effect on [address, isConnected] starts loadData again and
\* the callbacks that depend on address are renewed. No state is reset
\* while isConnected stays true
SwitchAccount ==
    /\ ~rm.settled
    /\ \E a \in Accounts \ {wa} : wa' = a
    /\ claimMemo' = claimHistory
    /\ last' = [op |-> "SwitchAccount", from |-> wa]
    /\ UNCHANGED <<connected, dashboard, pendingMines, ticketPrice, isLoading,
                   isFinalizing, finalizingRef, miningPhase, fin, mn,
                   claimableData, claimHistory, cl, rm, scope, st>>
    /\ UNCHANGED pureVars

\* the claim protocol while the wallet changes between its accounts
NextAccounts ==
    \/ Connect
    \/ Disconnect
    \/ SwitchAccount
    \/ LoadData
    \/ HandleClaim(1)
    \/ ClaimPrepare(1)
    \/ ClaimSigned(1)
    \/ ClaimConfirmed(1)
    \/ ClaimRefreshed(1)

\* the claim history across the accounts of the wallet
SpecAccounts == InitClaim /\ [][NextAccounts]_vars

\* what localStorage may hold when the page is opened: a history and wins
\* saved earlier or damaged, under the identity of either build or of none
SavedStores ==
    [available : BOOLEAN, address : Identities \cup {"null"},
     history : {NullItem, CorruptItem,
                Stringify(<<[epochs |-> <<1>>, amount |-> 1,
                             from |-> "0x1"]>>)},
     wins : {NullItem, CorruptItem, Stringify(<<1>>)}]

\* the first render of App: the initializer of claimHistory runs, then the
\* initializer of jackpotWins
Mount ==
    /\ ~st.mounted
    /\ LET init == ClaimHistoryInitializer(st.store, st.minerAddress)
       IN  /\ claimHistory' = init.value
           /\ claimMemo' = init.value
           /\ st' = [st EXCEPT !.mounted = TRUE, !.store = init.store,
                               !.jackpotWins = JackpotWinsInitializer(init.store)]
           /\ last' = [op |-> "Mount", saved |-> st.store,
                       minerAddress |-> st.minerAddress]
    /\ UNCHANGED <<connected, dashboard, pendingMines, ticketPrice, isLoading,
                   isFinalizing, finalizingRef, miningPhase, fin, mn,
                   claimableData, cl, rm, scope, wa>>
    /\ UNCHANGED pureVars

\* the page is closed or reloaded: the state of App and what its handlers
\* were waiting for is gone, localStorage stays
Unmount ==
    /\ st.mounted
    /\ connected' = FALSE
    /\ dashboard' = NullDashboard
    /\ pendingMines' = 0
    /\ ticketPrice' = 0
    /\ isLoading' = FALSE
    /\ isFinalizing' = FALSE
    /\ finalizingRef' = FALSE
    /\ miningPhase' = ""
    /\ fin' = [i \in FinIds |-> IdleFin]
    /\ mn' = [m \in MineIds |-> IdleMine]
    /\ claimableData' = NullClaimable
    /\ claimHistory' = <<>>
    /\ claimMemo' = <<>>
    /\ cl' = [a \in ClaimIds |-> IdleClaim]
    /\ last' = [op |-> "Unmount"]
    /\ st' = [st EXCEPT !.mounted = FALSE, !.jackpotWins = <<>>]
    /\ UNCHANGED <<rm, scope, wa>>
    /\ UNCHANGED pureVars

\* the page is served by a build whose CONFIG.minerAddress is another
\* deployment of the miner
Redeploy ==
    /\ ~st.mounted
    /\ \E a \in Identities \ {st.minerAddress} :
          st' = [st EXCEPT !.minerAddress = a]
    /\ last' = [op |-> "Redeploy"]
    /\ UNCHANGED <<connected, dashboard, pendingMines, ticketPrice, isLoading,
                   isFinalizing, finalizingRef, miningPhase, fin, mn,
                   claimableData, claimHistory, claimMemo, cl, rm, scope,
                   wa>>
    /\ UNCHANGED pureVars

\* the page is opened, used for claims and closed, by either build
NextStorage ==
    \/ Mount
    \/ Unmount
    \/ Redeploy
    \/ st.mounted /\ Connect
    \/ st.mounted /\ LoadData
    \/ st.mounted /\ HandleClaim(1)
    \/ st.mounted /\ ClaimPrepare(1)
    \/ st.mounted /\ ClaimSigned(1)
    \/ st.mounted /\ ClaimConfirmed(1)
    \/ st.mounted /\ ClaimRefreshed(1)

InitStorage ==
    /\ AppStart
    /\ scope = {"claimable"}
    /\ mg = IdleMerge
    /\ cb = IdleBatch
    /\ cp = IdleCap
    /\ rc = IdleReads
    /\ tm = IdleTimer
    /\ sn = IdleSanitize
    /\ mw = IdleWrite
    /\ \E store \in SavedStores :
          st = [mounted |-> FALSE, minerAddress |-> "0xA",
                jackpotWins |-> <<>>, store |-> store]

\* the persisted history across page loads and builds
SpecStorage == InitStorage /\ [][NextStorage]_vars

\* one protocol per behaviour, the cap of the ledger fixed
InitTerminate ==
    /\ AppStart
    /\ scope \in {{"pending", "finalize"}, {"pending", "mine"},
                  {"claimable", "claim"}}
    /\ mg = IdleMerge
    /\ cb = IdleBatch
    /\ cp = IdleCap
    /\ rc = IdleReads
    /\ tm = IdleTimer
    /\ sn = IdleSanitize
    /\ mw = IdleWrite
    /\ st = IdleStorage

\* every call a handler awaits settles: each step of a started handler is
\* taken once it is due
HandlersProgress ==
    /\ \A i \in FinIds :
          /\ WF_vars(FinalizePrepare(i))
          /\ WF_vars(FinalizeSigned(i))
          /\ WF_vars(FinalizeConfirmed(i))
          /\ WF_vars(FinalizeRefreshed(i))
    /\ WF_vars(MinePrepare(1))
    /\ WF_vars(MineSigned(1))
    /\ WF_vars(MineConfirmed(1))
    /\ WF_vars(MineRefreshed(1))
    /\ WF_vars(MineRollback(1))
    /\ WF_vars(ClaimPrepare(1))
    /\ WF_vars(ClaimSigned(1))
    /\ WF_vars(ClaimConfirmed(1))
    /\ WF_vars(ClaimRefreshed(1))

\* the three protocols when every awaited call settles
SpecTerminate == InitTerminate /\ [][NextProtocols]_vars /\ HandlersProgress

\* the finalize protocol under polls and session changes
SpecFinalize == Init /\ [][NextFinalize]_vars

\* the mine protocol under polls and session changes
SpecMine == Init /\ [][NextMine]_vars

\* ---------------------------------------------------------------- claims
\* remaining(cap, used, pendingLocal) of the specification's CapAccountant
Remaining(cap, used, pendingLocal) == Max(0, cap - used - pendingLocal)

FinalizeEnded == last.op \in {"FinalizeDone", "FinalizeFailed"}

\* C1 as stated: when handleFinalize was activated again while an activation
\* was running, that activation ends having submitted exactly one
\* finalizeMines write.
C1_ExactlyOneWrite ==
    (FinalizeEnded /\ last.overlapped) => last.writes = 1

\* C1 amended: whatever the number of overlapping activations, at most one
\* activation of handleFinalize is past the guard and at most one
\* finalizeMines write is submitted; it is exactly one when the first
\* activation gets as far as its write call, and an activation that finds
\* the guard set returns having changed and submitted nothing.
C1_AtMostOneWrite ==
    /\ Cardinality({i \in FinIds : fin[i].pc # "idle"}) <= 1
    /\ Cardinality({i \in FinIds : fin[i].writes > 0}) <= 1
    /\ \A i \in FinIds : fin[i].writes <= 1
    /\ last.op = "FinalizeBlocked" => fin[last.id] = IdleFin
    /\ (FinalizeEnded /\ last.overlapped) => last.writes <= 1
    /\ (last.op = "FinalizeDone" /\ last.overlapped) => last.writes = 1
    /\ (last.op = "FinalizeFailed" /\ last.overlapped
            /\ last.stage # "preparing") => last.writes = 1

\* a finalize was confirmed and refreshed after its write, and handleFinalize
\* had been activated a second time while it was running
C1_Witness ==
    last.op = "FinalizeDone" /\ last.overlapped /\ last.writes = 1

\* C2 as stated: a finalizeMines(count) write is issued only with
\* count <= max(0, effectiveCap - used) of the snapshot held at that moment.
C2_WriteWithinHeldCap ==
    last.op = "FinalizeWrite" =>
        last.count <= Remaining(dashboard.effectiveCap,
                                dashboard.pendingTickets, 0)

\* C2 amended: the count of a finalizeMines write never exceeds
\* max(0, cap - used), cap and used being those of the snapshot held when
\* handleFinalize was activated, with cap the effectiveCap, or the hardCap
\* when effectiveCap is 0, or 1 when both are 0 or no snapshot is held.
C2_WriteWithinActivationCap ==
    /\ last.op = "FinalizeStarted" =>
          /\ fin[last.id].cap =
                (IF dashboard.effectiveCap # 0 THEN dashboard.effectiveCap
                 ELSE IF dashboard.hardCap # 0 THEN dashboard.hardCap ELSE 1)
          /\ fin[last.id].oldUsed = dashboard.pendingTickets
          /\ fin[last.id].pre = pendingMines
    /\ \A i \in FinIds : fin[i].pc # "idle" =>
          fin[i].count <= Remaining(fin[i].cap, fin[i].oldUsed, 0)
    /\ last.op = "FinalizeWrite" =>
          /\ last.count = fin[last.id].count
          /\ last.count <= Remaining(fin[last.id].cap, fin[last.id].oldUsed, 0)

\* a write is issued for fewer mines than are pending: the cap is binding
C2_Witness ==
    /\ last.op = "FinalizeWrite"
    /\ last.count < fin[last.id].pre
    /\ last.count = fin[last.id].cap - fin[last.id].oldUsed

CapacityErrors == {"EpochCapReached", "OnlyNMore"}

MineActivated == last.op \in {"MineRejected", "MineStarted"}

\* C3 as stated: an activation of handleMine whose ticket count exceeds
\* remaining(effectiveCap, used, pendingMines) of the held snapshot is
\* rejected with a capacity error and goes no further.
C3_RejectedAboveRemaining ==
    (MineActivated /\ last.tickets >
        Remaining(dashboard.effectiveCap, dashboard.pendingTickets,
                  pendingMines))
    => (last.op = "MineRejected" /\ last.err \in CapacityErrors)

\* C3 amended: when the held snapshot has a non-zero effectiveCap, an
\* activation of handleMine whose ticket count exceeds
\* remaining(effectiveCap, used, pendingMines) is rejected and never reaches
\* requestMine; the rejection is a capacity error once the price is loaded.
C3_RejectedAbovePreciseCap ==
    (MineActivated /\ dashboard.effectiveCap # 0 /\ last.tickets >
        Remaining(dashboard.effectiveCap, dashboard.pendingTickets,
                  pendingMines))
    => /\ last.op = "MineRejected"
       /\ mn[1].pc = "idle"
       /\ ticketPrice # 0 => last.err \in CapacityErrors

\* one ticket is asked for while used + pending mines fill the cap
C3_Witness ==
    /\ last.op = "MineRejected"
    /\ last.err \in CapacityErrors
    /\ last.tickets = 1
    /\ dashboard.effectiveCap > 0
    /\ pendingMines > 0
    /\ dashboard.pendingTickets < dashboard.effectiveCap

\* C4: after the refresh of a confirmed finalize of count mines started at
\* pre, the counter is max(0, pre - count) when the polled value is >= pre
\* and the polled value when it is < pre.
C4_FinalizePendingReconciled ==
    last.op = "FinalizeDone" =>
        pendingMines = (IF last.polled >= last.pre
                        THEN Max(0, last.pre - last.count)
                        ELSE last.polled)

\* the poll is stale (above the value before the finalize) and is discarded
C4_Witness ==
    /\ last.op = "FinalizeDone"
    /\ last.polled > last.pre
    /\ last.count < last.pre
    /\ pendingMines = last.pre - last.count

C6_FinalizeUsedReconciled ==
    last.op = "FinalizeDone" =>
        dashboard.pendingTickets = (IF last.newUsed <= last.oldUsed
                                    THEN last.oldUsed + last.count
                                    ELSE last.newUsed)

\* the polled dashboard still shows the old used tickets and is patched
C6_Witness ==
    /\ last.op = "FinalizeDone"
    /\ last.oldUsed > 0
    /\ last.newUsed = last.oldUsed
    /\ dashboard.pendingTickets = last.oldUsed + last.count

\* C7: applying a reconciliation merge a second time with the same inputs
\* leaves the counter where the first application put it, for the rule of
\* handleFinalize and for the rule of handleMine.
C7_MergeIdempotent ==
    mg.pc = "ready" /\ mg.applied = 2 => mg.val = mg.once

\* a merge moved the counter, and its second application kept it there
C7_Witness ==
    /\ mg.pc = "ready"
    /\ mg.applied = 2
    /\ mg.val # mg.start
    /\ mg.val = mg.once

RECURSIVE SumSeq(_)
SumSeq(q) == IF q = <<>> THEN 0 ELSE Head(q) + SumSeq(Tail(q))

\* C8: at every point of a call the amounts selected so far, and so the
\* total returned, do not exceed min(pool, balance) read by that call.
C8_TotalWithinBothBounds ==
    cb.pc \in {"loop", "done"} =>
        /\ SumSeq(cb.loc.validAmounts) <= cb.poolVar
        /\ SumSeq(cb.loc.validAmounts) <= cb.tokenBalance
        /\ cb.loc.runningTotal = SumSeq(cb.loc.validAmounts)

\* the token balance, smaller than the pool counter, is what cut the batch
C8_Witness ==
    /\ cb.pc = "done"
    /\ cb.tokenBalance < cb.poolVar
    /\ cb.loc.validAmounts # <<>>
    /\ cb.loc.stop
    /\ SumSeq(cb.amounts) <= cb.poolVar

\* the candidates with a non-zero amount, in the order of the read
NonZero(epochs, amounts) ==
    LET RECURSIVE Pick(_)
        Pick(n) ==
            IF n = 0 THEN <<>>
            ELSE IF amounts[n] = 0 THEN Pick(n - 1)
            ELSE Append(Pick(n - 1), [epoch |-> epochs[n], amount |-> amounts[n]])
    IN  Pick(Len(epochs))

\* C9: the call returns exactly the longest prefix of the non-zero
\* candidates, in the order of the read, whose amounts add up to at most
\* min(pool, balance).
C9_LongestFittingPrefix ==
    cb.pc = "done" =>
        LET nz == NonZero(cb.epochs, cb.amounts)
            bound == Min(cb.poolVar, cb.tokenBalance)
            fits == {n \in 0..Len(nz) :
                        SumSeq([x \in 1..n |-> nz[x].amount]) <= bound}
            best == CHOOSE n \in fits : \A m \in fits : m <= n
        IN  /\ cb.loc.validEpochs = [x \in 1..best |-> nz[x].epoch]
            /\ cb.loc.validAmounts = [x \in 1..best |-> nz[x].amount]

\* a zero amount was skipped, a candidate was selected after it, the next
\* one did not fit, and a later one that would fit was left out
C9_Witness ==
    /\ cb.pc = "done"
    /\ cb.loc.stop
    /\ \E z \in 1..Len(cb.amounts) :
          /\ cb.amounts[z] = 0
          /\ cb.loc.validEpochs # <<>>
          /\ z < cb.loc.validEpochs[1]
    /\ \E x \in 1..Len(cb.amounts) :
          /\ x >= cb.i
          /\ cb.amounts[x] > 0
          /\ cb.amounts[x] <= cb.loc.poolRemaining

\* C10 as stated: the capacity the controller computes, in handleFinalize
\* (pendingLocal = 0) and in handleMine, equals
\* max(0, cap - used - pendingLocal) and is not negative.
C10_RemainingClamped ==
    cp.pc = "done" =>
        /\ cp.result >= 0
        /\ cp.by = "finalize" => cp.result = Remaining(cp.cap, cp.used, 0)
        /\ cp.by = "mine" =>
              cp.result = Remaining(cp.cap, cp.used, cp.pendingLocal)

\* C10 amended: the capacity handleFinalize computes equals max(0, cap - used)
\* and is never negative; the capacity handleMine computes is
\* cap - used - pendingLocal without the clamp: it equals
\* max(0, cap - used - pendingLocal) when used + pendingLocal <= cap and is
\* negative otherwise.
C10_ClampedInFinalizeOnly ==
    cp.pc = "done" =>
        /\ cp.by = "finalize" =>
              /\ cp.result >= 0
              /\ cp.result = Remaining(cp.cap, cp.used, 0)
        /\ cp.by = "mine" =>
              /\ cp.result + cp.used + cp.pendingLocal = cp.cap
              /\ cp.used + cp.pendingLocal <= cp.cap =>
                    cp.result = Remaining(cp.cap, cp.used, cp.pendingLocal)
              /\ cp.used + cp.pendingLocal > cp.cap => cp.result < 0

\* handleMine computed a negative capacity: used and pending exceed the cap
C10_Witness ==
    /\ cp.pc = "done"
    /\ cp.by = "mine"
    /\ cp.cap > 0
    /\ cp.used < cp.cap
    /\ cp.result < 0

\* C11: the count of a finalizeMines write is
\* min(pendingMines, max(0, cap - used)) of the values held when
\* handleFinalize was activated (cap the effectiveCap, else the hardCap,
\* else 1), one write carries it, and once the write is accepted the
\* counter is lowered by that count, the other mines staying pending.
C11_CountIsMinPendingRemaining ==
    /\ last.op = "FinalizeStarted" =>
          fin[last.id].count =
              Min(pendingMines,
                  Remaining(IF dashboard.effectiveCap # 0
                            THEN dashboard.effectiveCap
                            ELSE IF dashboard.hardCap # 0
                                 THEN dashboard.hardCap ELSE 1,
                            dashboard.pendingTickets, 0))
    /\ last.op = "FinalizeWrite" =>
          /\ last.count = Min(fin[last.id].pre,
                              Remaining(fin[last.id].cap,
                                        fin[last.id].oldUsed, 0))
          /\ fin[last.id].writes = 1
    /\ last.op = "FinalizeAccepted" =>
          pendingMines = Max(0, last.before - last.count)

\* cap 2, used 1, 3 pending: one write of 1 is accepted and 2 stay pending
C11_Witness ==
    /\ last.op = "FinalizeAccepted"
    /\ fin[last.id].cap = 2
    /\ fin[last.id].oldUsed = 1
    /\ fin[last.id].pre = 3
    /\ last.count = 1
    /\ pendingMines = 2

\* the cap handleFinalize works with for a held snapshot d
HeldCap(d) ==
    IF d.effectiveCap # 0 THEN d.effectiveCap
    ELSE IF d.hardCap # 0 THEN d.hardCap ELSE 1

\* C12: an activation of handleFinalize that finds
\* min(pendingMines, max(0, cap - used)) = 0 with pendingMines > 0 shows the
\* wait-for-next-epoch message, makes no write, leaves the pending counter
\* and the dashboard as they were and releases the guard; an activation
\* goes on to a write only with a count > 0.
C12_CapReachedWaits ==
    /\ last.op = "FinalizeCapReached" =>
          /\ last.pending > 0
          /\ Min(last.pending,
                 Remaining(HeldCap(last.dashboard),
                           last.dashboard.pendingTickets, 0)) = 0
          /\ last.err = "EpochCapWait"
          /\ pendingMines = last.pending
          /\ dashboard = last.dashboard
          /\ fin[last.id] = IdleFin
          /\ ~finalizingRef
          /\ ~isFinalizing
    /\ last.op = "FinalizeStarted" =>
          Min(pendingMines,
              Remaining(HeldCap(dashboard), dashboard.pendingTickets, 0)) > 0
    /\ last.op = "FinalizeWrite" => last.count > 0

\* mines are pending and the used tickets fill a known effective cap
C12_Witness ==
    /\ last.op = "FinalizeCapReached"
    /\ pendingMines > 1
    /\ dashboard.effectiveCap > 0
    /\ dashboard.pendingTickets >= dashboard.effectiveCap

InFlight == {"preparing", "signing", "confirming", "refreshing"}

\* C13: finalizingRef is set in the turn that activates handleFinalize and
\* is true in every state where an activation is preparing its write,
\* awaiting the signature, awaiting the confirmation or refreshing; it is
\* false again once that activation has ended, confirmed or failed.
C13_GuardHeldWhileInFlight ==
    /\ \A i \in FinIds : fin[i].pc \in InFlight => finalizingRef
    /\ last.op = "FinalizeStarted" =>
          /\ finalizingRef
          /\ fin[last.id].pc = "preparing"
    /\ last.op \in {"FinalizeWrite", "FinalizeAccepted", "FinalizeConfirmed"}
          => finalizingRef
    /\ FinalizeEnded => ~finalizingRef

\* a second activation arrived while the first awaited its confirmation and
\* found the guard set
C13_Witness ==
    /\ last.op = "FinalizeBlocked"
    /\ finalizingRef
    /\ pendingMines > 0
    /\ \E i \in FinIds : fin[i].pc = "confirming" /\ fin[i].overlapped

\* C14: the pending-mines counter shown to the user is never negative,
\* whatever the remote reads return.
C14_PendingNonNegative == pendingMines >= 0

\* C15: once the optimistic update of a mine or of a finalize is displayed
\* and its write is confirmed, a read of loadData does not put the
\* pending-mines counter back at the value it had before the operation.
C15_NoVisibleUndo ==
    last.op = "LoadData" =>
        /\ (mn[1].pc = "refreshing" /\ mn[1].pre >= 0) => pendingMines # mn[1].pre
        /\ \A i \in FinIds :
              fin[i].pc = "refreshing" => pendingMines # fin[i].pre

Converged ==
    /\ pendingMines = rm.pending
    /\ dashboard.pendingTickets = rm.dashboard.pendingTickets

\* C16: once the ledger has settled, reads are current and the user starts
\* nothing more while the session lasts, the displayed pending-mines counter
\* and the dashboard's used tickets eventually equal the ledger's values and
\* stay equal.
C16_Converges == rm.settled ~> [](Converged)

\* the ledger has settled at non-zero values and a poll has brought both
\* counters to them, no finalize being in flight
C16_Witness ==
    /\ rm.settled
    /\ last.op = "LoadData"
    /\ Converged
    /\ rm.pending > 0
    /\ rm.dashboard.pendingTickets > 0
    /\ \A i \in FinIds : fin[i].pc = "idle"

\* ---- C17
\* C17: the optimistic update of an operation is applied in the step in
\* which its write is accepted, before the confirmation is awaited: finalize
\* lowers the pending counter by the submitted count (not below 0), mine
\* raises it by one, claim empties the claimable set; a step of a handler in
\* which the write is not accepted (refused, or not yet called) leaves the
\* counter and the claimable set as they were.
C17_OptimisticAtAcceptance ==
    [][ /\ \A i \in FinIds :
            /\ (fin[i].pc = "signing" /\ fin'[i].pc = "confirming")
                => pendingMines' = Max(0, pendingMines - fin[i].count)
            /\ (fin[i].pc \in {"idle", "preparing", "signing"}
                /\ fin'[i].pc # fin[i].pc /\ fin'[i].pc # "confirming")
                => pendingMines' = pendingMines
        /\ (mn[1].pc = "signing" /\ mn'[1].pc = "confirming")
            => pendingMines' = pendingMines + 1
        /\ (mn[1].pc \in {"idle", "preparing", "signing"}
            /\ mn'[1].pc # mn[1].pc /\ mn'[1].pc # "confirming")
            => pendingMines' = pendingMines
        /\ (cl[1].pc = "signing" /\ cl'[1].pc = "confirming")
            => claimableData' = EmptyClaimable
        /\ (cl[1].pc \in {"idle", "preparing", "signing"}
            /\ cl'[1].pc # cl[1].pc /\ cl'[1].pc # "confirming")
            => claimableData' = claimableData
      ]_vars

\* a finalize write of two mines has just been accepted and the counter
\* stands two lower, with the confirmation still awaited
C17_Witness ==
    /\ last.op = "FinalizeAccepted"
    /\ last.count = 2
    /\ pendingMines = last.before - 2
    /\ fin[last.id].pc = "confirming"

\* ---- C18
\* C18: an operation whose confirmation reports failure does not end there:
\* a fresh read is awaited next (the handler is not idle yet), and when it
\* resolves the value read replaces the displayed counter.
C18_FailedAfterSubmitRereads ==
    /\ (last.op = "MineFailed" /\ last.stage = "confirming")
        => mn[1].pc = "rollback"
    /\ last.op = "MineRolledBack" => pendingMines = last.polled
    /\ (last.op = "FinalizeFailed" /\ last.stage = "confirming")
        => fin[last.id].pc # "idle"
    /\ (last.op = "ClaimFailed" /\ last.stage = "confirming")
        => cl[1].pc # "idle"

\* ---- C19
\* the user declined the signature request of the write just called
Declined == last.kind = "rejected" /\ last.stage = "signing"

\* C19: when the user declines to sign a mine, a finalize or a claim, no
\* error message is shown and the controller is back to idle with nothing
\* accepted: finalize and claim release the loading flag (finalize also its
\* two guards) in the same turn; mine clears its phase in that turn and
\* releases the loading flag when its rollback read has resolved.
C19_DeclineIsSilent ==
    /\ (last.op = "FinalizeFailed" /\ Declined)
        => /\ last.err = ""
           /\ ~isLoading /\ ~isFinalizing /\ ~finalizingRef
           /\ miningPhase = ""
           /\ fin[last.id].pc = "idle"
    /\ (last.op = "ClaimFailed" /\ Declined)
        => /\ last.err = ""
           /\ ~isLoading
           /\ cl[1].pc = "idle"
    /\ (last.op = "MineFailed" /\ Declined)
        => /\ last.err = ""
           /\ miningPhase = ""
           /\ mn[1].pc = "rollback"
    /\ last.op = "MineRolledBack"
        => /\ ~isLoading
           /\ miningPhase = ""
           /\ mn[1].pc = "idle"

\* the user has just declined the signature of a mine
C19_Witness ==
    /\ last.op = "MineFailed"
    /\ Declined
    /\ last.err = ""
    /\ mn[1].pc = "rollback"

\* ---- C20
\* C20: a mine whose pre-flight fails issues no requestMine. A check of
\* handleMine that fails ends the invocation on the spot; mine() is entered
\* only with a positive ticket count, a loaded price, a count within the
\* precise remaining cap and a cost within MAX_ETH; a check of mine() that
\* fails reaches the catch with no write issued; and requestMine is called
\* only with a count in 1..MAX_TICKETS, a cost within MAX_WEI, a signer of
\* the expected address and an eligible user.
C20_NoWriteAfterFailedPreflight ==
    /\ last.op = "MineRejected" => (mn[1].pc = "idle" /\ mn[1].writes = 0)
    /\ last.op = "MineStarted"
        => /\ last.tickets > 0
           /\ ticketPrice # 0
           /\ ~(IsPreciseCap(dashboard) /\ last.tickets > last.remainingCap)
           /\ last.tickets * ticketPrice <= MAX_ETH
           /\ mn[1].writes = 0
    /\ (last.op = "MineFailed" /\ last.stage = "preparing")
        => (last.writes = 0 /\ mn[1].writes = 0)
    /\ last.op = "MineWrite"
        => /\ last.tickets \in 1..MAX_TICKETS
           /\ last.value <= MAX_WEI
           /\ last.env.signer /\ last.env.addressMatch /\ last.env.canMine
           /\ ~last.env.paused /\ last.env.seeded /\ last.env.minerWrite
           /\ mn[1].writes = 1

\* the eligibility check of mine() has just failed: its message is shown and
\* no write was issued
C20_Witness ==
    /\ last.op = "MineFailed"
    /\ last.kind = "preflight"
    /\ last.err = NOT_ELIGIBLE.text
    /\ last.writes = 0
    /\ mn[1].pc = "rollback"

\* ---- C21
\* C21: a finalize activated with no pending mines and a claim activated
\* with no claimable epoch end in the local pre-check, with no write issued
\* and with a message shown to the user.
C21_EmptyPrecheckVisible ==
    /\ (last.op = "FinalizeBlocked" /\ last.pending <= 0)
        => (fin[last.id].pc = "idle" /\ last.err # "")
    /\ last.op = "ClaimRejected"
        => (cl[1].pc = "idle" /\ last.err # "")

\* ---- C22
\* the events in which the result of a read is stored
ReadStored == {"LoadData", "EpochRefresh", "FinalizeDone", "MineDone",
               "MineRolledBack", "ClaimDone"}

\* C22: a read that was in flight when the session was torn down stores
\* nothing when it completes: in the step that follows a disconnection, a
\* completing read leaves the dashboard, the claimable set and the pending
\* counter as the disconnection left them (reads of a negative pending
\* count set aside).
C22_TornDownReadsDiscarded ==
    [][ (last.op = "Disconnect" /\ last'.op \in ReadStored
         /\ pendingMines' >= 0)
        => /\ dashboard' = dashboard
           /\ claimableData' = claimableData
           /\ pendingMines' = pendingMines
      ]_vars

\* ---- C23
\* C23: while the session lasts a held dashboard snapshot is replaced only
\* by the result of a successful read or by an optimistic patch: a read
\* that fails (getUserDashboard resolving to null) leaves the held snapshot
\* in place, so a snapshot once held is never followed by none.
C23_FailedReadKeepsSnapshot ==
    [][ (connected /\ connected' /\ dashboard.present) => dashboard'.present
      ]_vars

\* ---- C24
\* C24: when a read call has failed, the read client has moved to the next
\* configured endpoint, so that the next call is sent there, and the failed
\* call has not returned a value as if it had been read: it threw, or it
\* returned nothing.
C24_FailedReadRotates ==
    (rc.pc = "returned" /\ rc.failed)
        => /\ rc.providerIndex = (rc.used + 1) % RPC_ENDPOINTS_LENGTH
           /\ GetProvider(rc.provider, rc.providerIndex) # rc.used
           /\ rc.fn = "getPendingMines" => rc.threw

\* ---- C25
\* the statement as made: at the tick where the countdown is zero a refresh
\* of the dashboard is triggered, whether or not a session is connected
C25_ZeroTickRefreshes ==
    /\ tm.timeRemaining >= 0
    /\ tm.ev = "tick"
        => /\ tm.prev > 0 => tm.timeRemaining = tm.prev - 1
           /\ tm.prev = 0 => (tm.timeRemaining = EPOCH_SECONDS /\ tm.refresh)

\* C25: at every 1-second tick the countdown decreases by exactly 1 while
\* it is above zero, with no refresh; at the tick where it is zero it is
\* reset to EPOCH_SECONDS, and a refresh of the dashboard is triggered
\* exactly when an address is connected; the countdown is never negative.
C25_TickCountsDown ==
    /\ tm.timeRemaining >= 0
    /\ tm.ev = "tick"
        => /\ tm.prev > 0 => (tm.timeRemaining = tm.prev - 1 /\ ~tm.refresh)
           /\ tm.prev = 0 => /\ tm.timeRemaining = EPOCH_SECONDS
                             /\ tm.refresh = tm.connected

\* the countdown was at zero with an address connected: the tick has reset
\* it and triggered the refresh
C25_Witness ==
    /\ tm.ev = "tick"
    /\ tm.prev = 0
    /\ tm.connected
    /\ tm.refresh
    /\ tm.timeRemaining = EPOCH_SECONDS

\* ---- C26
\* C26: a mine shows its phases in the order of its states: the preparing
\* phase while mine() runs its checks, the awaiting-signature phase
\* ('confirming', CONFIRM IN WALLET) from before the signature is requested
\* until the write is accepted, and the waiting phase while the
\* confirmation is awaited.
C26_AwaitingSignatureShown ==
    /\ mn[1].pc = "preparing" => miningPhase = "preparing"
    /\ mn[1].pc = "signing" => miningPhase = "confirming"
    /\ mn[1].pc = "confirming" => miningPhase = "waiting"

\* ---- C27
\* C27: when every awaited call settles, a mine, a finalize or a claim that
\* was started ends, and at its end the controller is idle again: the
\* loading flag is false, the mining phase is empty and the finalize guard
\* is released.
C27_StartedOperationEnds ==
    /\ \A i \in FinIds :
          (fin[i].pc # "idle")
              ~> (fin[i].pc = "idle" /\ ~isLoading /\ ~isFinalizing
                  /\ ~finalizingRef /\ miningPhase = "")
    /\ (mn[1].pc # "idle") ~> (mn[1].pc = "idle" /\ ~isLoading /\ miningPhase = "")
    /\ (cl[1].pc # "idle") ~> (cl[1].pc = "idle" /\ ~isLoading)

\* a mine whose confirmation failed has ended through its rollback read
C27_Witness ==
    /\ last.op = "MineRolledBack"
    /\ mn[1].pc = "idle"
    /\ ~isLoading
    /\ miningPhase = ""

\* ---- C28
\* C28: the claim history, in memory and as saved, changes only in the step
\* in which a claim's confirmation succeeds: a claim that is declined, that
\* fails at submission or that fails at confirmation adds no entry.
C28_EntryOnlyOnConfirmation ==
    [][ claimHistory' # claimHistory
        => /\ cl[1].pc = "confirming"
           /\ cl'[1].pc = "refreshing"
           /\ last'.op = "ClaimConfirmed"
           /\ Head(claimHistory') = [epochs |-> cl[1].epochs,
                                     amount |-> cl[1].amount,
                                     from |-> cl[1].from]
      ]_vars

\* after one confirmed claim a second claim has failed at confirmation and
\* the history still holds the one entry
C28_Witness ==
    /\ last.op = "ClaimFailed"
    /\ last.stage = "confirming"
    /\ Len(claimHistory) = 1

\* ---- C29
\* C29: the claim history is append-only and capped: every change puts the
\* entry of the claim just confirmed in front of the history as it stood,
\* keeps the order of what was there, and drops only what no longer fits in
\* HISTORY_CAP entries.
C29_AppendOnlyCapped ==
    [][ /\ Len(claimHistory') <= HISTORY_CAP
        /\ claimHistory' # claimHistory
            => /\ last'.op = "ClaimConfirmed"
               /\ LET act == cl[last'.id]
                      all == <<[epochs |-> act.epochs, amount |-> act.amount,
                                from |-> act.from]>> \o claimHistory
                  IN  claimHistory' = SubSeq(all, 1,
                                             Min(Len(all), HISTORY_CAP))
      ]_vars

\* ---- C30
\* the first render found localStorage available and recorded under an
\* identity other than the configured one
MountedOnOtherIdentity ==
    /\ last.op = "Mount"
    /\ last.saved.available
    /\ last.saved.address # last.minerAddress

\* C30: when the configured miner address differs from the identity recorded
\* with the persisted state, the first render clears the saved claim history
\* and the saved wins and records the configured address before either is
\* loaded: the history and the wins shown are empty, and while App is
\* mounted on an available localStorage the identity recorded is the
\* configured one.
C30_OtherLedgerHistoryCleared ==
    /\ MountedOnOtherIdentity
        => /\ claimHistory = <<>>
           /\ st.jackpotWins = <<>>
           /\ st.store.history = NullItem
           /\ st.store.wins = NullItem
           /\ st.store.address = last.minerAddress
    /\ st.mounted /\ st.store.available
        => st.store.address = st.minerAddress

\* the page was opened by a build for another deployment on a localStorage
\* that held a claim history and wins recorded for the first deployment
C30_Witness ==
    /\ MountedOnOtherIdentity
    /\ last.saved.address \in Identities
    /\ last.saved.history.kind = "json"
    /\ last.saved.wins.kind = "json"
    /\ st.mounted

\* ---- C31
\* C31: the claim history is scoped per address: every entry of the history
\* shown while an address is connected, and every entry of the history
\* saved in that step, was recorded by a claim of that address.
C31_HistoryScopedPerAddress ==
    /\ connected
        => \A i \in 1..Len(claimHistory) : claimHistory[i].from = wa
    /\ last.op = "ClaimConfirmed"
        => \A i \in 1..Len(ParsedOrEmpty(st.store.history)) :
              ParsedOrEmpty(st.store.history)[i].from = wa

\* ---- C32
\* C32: every error text shown is one of the fixed messages or a text with
\* no line of a stack trace, no hex payload and no full address, whatever
\* the raw error was and whether or not the service wrapped it.
C32_ShownTextHidesInternals ==
    sn.pc = "caught" /\ sn.shown
        => \/ sn.msg \in FixedMessages
           \/ \A i \in 1..Len(sn.msg.text) : sn.msg.text[i] \notin Internals

\* a raw error carrying the sender's full address was caught and the generic
\* network message is shown in its place
C32_Witness ==
    /\ sn.pc = "caught"
    /\ sn.shown
    /\ \E i \in 1..Len(sn.raw.text) : sn.raw.text[i] \in AddressFragments
    /\ sn.msg = NETWORK_ERROR

\* ---- C33
\* C33: every requestMine write carries a ticket count in 1..MAX_TICKETS and
\* a value of exactly ticketCount times the unit price read for that call,
\* and the value is at most MAX_WEI.
C33_WriteValueExact ==
    mw.pc = "written"
        => /\ mw.requestMine \in 1..MAX_TICKETS
           /\ mw.requestMine = mw.ticketCount
           /\ mw.value = mw.requestMine * mw.unitWei
           /\ mw.value <= MAX_WEI

\* a write of the largest ticket count at the deployed price, whose value is
\* the whole of MAX_WEI
C33_Witness ==
    /\ mw.pc = "written"
    /\ mw.requestMine = MAX_TICKETS
    /\ mw.value = MAX_WEI

\* ---- C34
\* C34: the gas budget of every claim and finalize write is
\* base + perUnit * count, with the constants of its kind, for every count,
\* a claim of a single epoch included.
C34_GasLinearInCount ==
    /\ last.op = "FinalizeWrite"
        => last.gasLimit = FINALIZE_BASE_GAS + FINALIZE_GAS_PER_MINE * last.count
    /\ last.op = "ClaimWrite"
        => last.gasLimit = CLAIM_BASE_GAS
                           + CLAIM_GAS_PER_EPOCH * Len(last.epochs)

\* C34, amended: the gas budget of a finalize write and of a claim of two or
\* more epochs is base + perUnit * count; a claim of a single epoch is sent
\* through claim(epoch) with the fixed budget SINGLE_CLAIM_GAS.
C34_GasLinearButSingleClaim ==
    /\ last.op = "FinalizeWrite"
        => last.gasLimit = FINALIZE_BASE_GAS + FINALIZE_GAS_PER_MINE * last.count
    /\ (last.op = "ClaimWrite" /\ Len(last.epochs) >= 2)
        => /\ last.fn = "claimBatch"
           /\ last.gasLimit = CLAIM_BASE_GAS
                              + CLAIM_GAS_PER_EPOCH * Len(last.epochs)
    /\ (last.op = "ClaimWrite" /\ Len(last.epochs) = 1)
        => /\ last.fn = "claim"
           /\ last.gasLimit = SINGLE_CLAIM_GAS

\* a claim of two epochs has been written with claimBatch
C34_Witness ==
    /\ last.op = "ClaimWrite"
    /\ Len(last.epochs) = 2
    /\ last.fn = "claimBatch"
    /\ cl[1].writes = 1

\* the elements of a sequence
Range(seq) == {seq[x] : x \in 1..Len(seq)}

\* ---- C35
\* C35: when the refresh of a confirmed claim has resolved, the claimable set
\* shown holds none of the epochs just claimed, whatever the refreshed read
\* reported.
C35_ClaimedEpochsNotShown ==
    last.op = "ClaimDone"
        => Range(claimableData.epochs) \cap Range(last.epochs) = {}

\* the refreshed read lagged: it still reported a claimed epoch next to one
\* that was not claimed, and only the latter is shown
C35_Witness ==
    /\ last.op = "ClaimDone"
    /\ last.polled.present
    /\ Range(last.polled.epochs) \cap Range(last.epochs) # {}
    /\ Len(claimableData.epochs) = 1

\* ---- C36
\* the activation of handleClaim has submitted its write, which has not yet
\* confirmed or failed
ClaimWriteInFlight(a) ==
    /\ cl[a].pc \in {"signing", "confirming"}
    /\ cl[a].writes = 1

\* C36: at most one claim write is in flight at a time: no two activations
\* of handleClaim have each a write submitted and not yet settled, and
\* never for the same epochs.
C36_OneClaimWriteInFlight ==
    \A a, b \in ClaimIds :
        (ClaimWriteInFlight(a) /\ ClaimWriteInFlight(b)) => a = b

\* ------------------------------------------------------------------ C37

\* requestMine has been called by activation m and has not settled yet
MineWriteInFlight(m) ==
    /\ mn[m].pc = "signing"
    /\ mn[m].writes = 1

\* C37: at most one mine submission is in flight at a time: no two
\* activations of handleMine have each a requestMine write submitted and
\* not yet settled, so that two mines checked against the same remaining
\* capacity are never both submitted.
C37_OneMineWriteInFlight ==
    \A a, b \in MineIds :
        (MineWriteInFlight(a) /\ MineWriteInFlight(b)) => a = b

\* ------------------------------------------------------------------ C38

\* C38: a failed read of the pending count is never taken for a read of 0:
\* when getPendingMines fails during a poll or during the rollback of a
\* mine while mines are pending on the ledger, a pending counter that was
\* showing mines is not set to 0.
C38_FailedReadNotTakenForZero ==
    (/\ last.op \in {"LoadData", "MineRolledBack"}
     /\ last.failed
     /\ last.ledger > 0
     /\ last.before > 0) => pendingMines # 0

\* ------------------------------------------------------------------ C39

\* C39: the claimable set held by the controller is consistent in every
\* reachable state, also after the epochs just claimed have been filtered
\* out: epochs and amounts have the same length and the total is the sum
\* of the amounts.
C39_ClaimableConsistent ==
    claimableData.present =>
        /\ Len(claimableData.epochs) = Len(claimableData.amounts)
        /\ claimableData.totalClaimable = SumSeq(claimableData.amounts)

====
